---- MODULE Spec2Model ----
(***************************************************************************)
(* Texas Hold'em engine of purinung/Poker: PokerGame (orchestrator),       *)
(* GameEngine (round state machine, pots) and PlayerActions (betting).     *)
(*                                                                         *)
(* The engine keeps one mutable GameState object; the model keeps it as    *)
(* the record gameState.  Every engine method is an operator from a        *)
(* GameState record to a GameState record (plus its return value), and     *)
(* every public entry point is one action of Next.  Cards are kept by      *)
(* count (hand: 0 or 2, communityCards: 0, 3, 4, 5); the outcome of the    *)
(* shuffle is the hand-strength assignment chosen when a showdown runs.    *)
(***************************************************************************)
EXTENDS Integers, Sequences, FiniteSets, TLC

\* ---------------------------------------------------------------- bounds
\* seats of a game (2..MaxSeats)
MaxSeats == 3
\* hole-card pairs dealt in a game: hands played times seats
MaxDealt == 4
\* distinct hand strengths a showdown can meet (1..MaxStrength)
MaxStrength == 2
\* raises are submitted while the bets of the hand are at most RaiseCap
RaiseCap == 60
\* highest total bet of a seat in the showdowns of SpecPots
MaxBet == 3
\* hole-card pairs dealt in a game followed past an elimination
MaxPairs == 5
\* values the random number generator takes in a shuffle: k / RngSteps, k < RngSteps
RngSteps == 4
\* hands dealt card by card
MaxDeckHands == 2

\* ------------------------------------------------------ program constants
MIN_PLAYERS == 2
MAX_PLAYERS == 9
initialChips == 1000
initialBigBlind == 20
initialSmallBlind == 10

\* RoundEnum, in the order of the hand
RoundOrder == <<"PREFLOP", "FLOP", "TURN", "RIVER", "CARD_REVEAL", "SHOWDOWN">>

RoundIndex(r) == CHOOSE i \in 1..Len(RoundOrder) : RoundOrder[i] = r

\* PlayerRoleEnum
DEALER == "DEALER"
SMALL_BLIND == "SMALL_BLIND"
BIG_BLIND == "BIG_BLIND"
VIEWER == "VIEWER"
NO_ROLE == ""

\* PlayerActionEnum
ActionTypes == {"fold", "check", "call", "raise", "all-in"}

\* no player (null / undefined / findIndex = -1)
NoPlayer == -1

VARIABLES gameState, handNumber

vars == <<gameState, handNumber>>

\* ------------------------------------------------------------- helpers
Min(a, b) == IF a < b THEN a ELSE b

Max(a, b) == IF a > b THEN a ELSE b

RECURSIVE SumOver(_, _)
SumOver(f, S) ==
    IF S = {} THEN 0
    ELSE LET x == CHOOSE y \in S : TRUE IN f[x] + SumOver(f, S \ {x})

RECURSIVE SumSeq(_)
SumSeq(s) == IF s = <<>> THEN 0 ELSE Head(s) + SumSeq(Tail(s))

\* the members of a set of seat indices as an array in seat order
RECURSIVE SeatOrder(_)
SeatOrder(S) ==
    IF S = {} THEN <<>>
    ELSE LET m == CHOOSE x \in S : \A y \in S : x <= y
         IN <<m>> \o SeatOrder(S \ {m})

SeqToSet(s) == {s[i] : i \in 1..Len(s)}

\* Array.prototype.find / findIndex over seat indices: first match or NoPlayer
FirstOf(S) == IF S = {} THEN NoPlayer ELSE CHOOSE x \in S : \A y \in S : x <= y

Seats(gs) == DOMAIN gs.players

NumPlayers(gs) == Cardinality(Seats(gs))

isViewer(p) == p.role = VIEWER

\* --------------------------------------------------- game initialization
initializeGame(n) ==
    [ players |->
        [ idx \in 0..(n - 1) |->
            [ chips |-> initialChips,
              currentBet |-> 0,
              totalBet |-> 0,
              isFolded |-> FALSE,
              isAllIn |-> FALSE,
              hasActed |-> FALSE,
              hand |-> 0,
              role |-> IF n = 2
                       THEN (IF idx = 0 THEN DEALER ELSE BIG_BLIND)
                       ELSE IF idx = 0 THEN DEALER
                       ELSE IF idx = 1 THEN SMALL_BLIND
                       ELSE IF idx = 2 THEN BIG_BLIND
                       ELSE NO_ROLE ] ],
      pot |-> 0,
      communityCards |-> 0,
      currentPlayerIndex |-> 0,
      round |-> "PREFLOP",
      bigBlind |-> initialBigBlind,
      smallBlind |-> initialSmallBlind,
      minBet |-> initialBigBlind,
      lastRaise |-> initialBigBlind,
      winners |-> <<>>,
      tournamentWinner |-> NoPlayer,
      gameEnded |-> FALSE ]

\* ------------------------------------------------------ player selectors
getActivePlayers(gs) ==
    { i \in Seats(gs) :
        /\ ~gs.players[i].isFolded
        /\ (gs.players[i].chips > 0 \/ gs.players[i].isAllIn)
        /\ gs.players[i].role # VIEWER }

getPlayersInUIAction(gs) ==
    { i \in Seats(gs) : ~gs.players[i].isFolded /\ gs.players[i].role # VIEWER }

getHighestCurrentBet(gs) ==
    LET bets == { IF gs.players[i].isFolded THEN 0 ELSE gs.players[i].currentBet
                  : i \in Seats(gs) } \cup {0}
    IN CHOOSE m \in bets : \A b \in bets : b <= m

getMinimumRaise(gs) == getHighestCurrentBet(gs) + gs.lastRaise

\* ------------------------------------------------------ tournament state
hasTournamentWinner(gs) ==
    LET playersWithChips ==
            { i \in Seats(gs) : gs.players[i].role # VIEWER /\ gs.players[i].chips > 0 }
    IN Cardinality(playersWithChips) = 1 /\ NumPlayers(gs) >= 2

getTournamentWinner(gs) ==
    IF ~hasTournamentWinner(gs) THEN NoPlayer
    ELSE FirstOf({ i \in Seats(gs) : gs.players[i].chips > 0 /\ gs.players[i].role # VIEWER })

\* ----------------------------------------------------------- new hand
handlePlayerElimination(gs) ==
    [gs EXCEPT !.players =
        [ i \in Seats(gs) |->
            IF gs.players[i].chips = 0 /\ gs.players[i].role # VIEWER
            THEN [gs.players[i] EXCEPT !.role = VIEWER, !.isFolded = TRUE]
            ELSE gs.players[i] ]]

\* the rotation without the heads-up branch: the positions of three or more
\* players assigned whatever the number of non-Viewer players
rotateDealerButtonWithoutHeadsUp(gs) ==
    LET activePlayers == SeatOrder({ i \in Seats(gs) : gs.players[i].role # VIEWER })
        activeCount == Len(activePlayers)
        found == { k \in 1..activeCount : gs.players[activePlayers[k]].role = DEALER }
        dealerIndex0 == IF found = {} THEN 0 ELSE FirstOf(found) - 1
        dealerIndex == (dealerIndex0 + 1) % activeCount
        at(k) == activePlayers[(k % activeCount) + 1]
        roleOf(i) ==
            IF gs.players[i].role = VIEWER THEN VIEWER
            ELSE IF i = at(dealerIndex + 2) THEN BIG_BLIND
            ELSE IF i = at(dealerIndex + 1) THEN SMALL_BLIND
            ELSE IF i = at(dealerIndex) THEN DEALER
            ELSE NO_ROLE
    IN IF activeCount < 2 THEN gs
       ELSE [gs EXCEPT !.players =
                [ i \in Seats(gs) |-> [gs.players[i] EXCEPT !.role = roleOf(i)] ]]

rotateDealerButton(gs) ==
    LET activePlayers == SeatOrder({ i \in Seats(gs) : gs.players[i].role # VIEWER })
        activeCount == Len(activePlayers)
        found == { k \in 1..activeCount : gs.players[activePlayers[k]].role = DEALER }
        \* findIndex, 0-based; -1 becomes 0
        dealerIndex0 == IF found = {} THEN 0 ELSE FirstOf(found) - 1
        dealerIndex == (dealerIndex0 + 1) % activeCount
        at(k) == activePlayers[(k % activeCount) + 1]
        roleOf(i) ==
            IF gs.players[i].role = VIEWER THEN VIEWER
            ELSE IF activeCount = 2
                 THEN (IF i = at(dealerIndex + 1) THEN BIG_BLIND
                       ELSE IF i = at(dealerIndex) THEN DEALER
                       ELSE NO_ROLE)
                 ELSE (IF i = at(dealerIndex + 2) THEN BIG_BLIND
                       ELSE IF i = at(dealerIndex + 1) THEN SMALL_BLIND
                       ELSE IF i = at(dealerIndex) THEN DEALER
                       ELSE NO_ROLE)
    IN IF activeCount < 2 THEN gs
       ELSE [gs EXCEPT !.players =
                [ i \in Seats(gs) |-> [gs.players[i] EXCEPT !.role = roleOf(i)] ]]

setupNewHand(gs) ==
    LET cleared == [gs EXCEPT !.pot = 0,
                              !.communityCards = 0,
                              !.minBet = gs.bigBlind,
                              !.lastRaise = gs.bigBlind]
        eliminated == handlePlayerElimination(cleared)
        reset == [eliminated EXCEPT !.players =
                    [ i \in Seats(gs) |->
                        [eliminated.players[i] EXCEPT !.hand = 0,
                                                      !.currentBet = 0,
                                                      !.totalBet = 0,
                                                      !.isFolded = FALSE,
                                                      !.hasActed = FALSE,
                                                      !.isAllIn = FALSE] ]]
    IN rotateDealerButton(reset)

\* one blind paid in full whatever the chips of the poster
postBlindUncapped(gs, i, blind) ==
    IF i = NoPlayer THEN gs
    ELSE [gs EXCEPT !.players[i].currentBet = blind,
                    !.players[i].totalBet = blind,
                    !.players[i].chips = @ - blind,
                    !.players[i].isAllIn =
                         IF gs.players[i].chips - blind = 0 THEN TRUE ELSE @,
                    !.pot = @ + blind]

\* one blind: min(chips, blind) moves from chips to currentBet, totalBet and pot
postBlind(gs, i, blind) ==
    IF i = NoPlayer THEN gs
    ELSE LET amount == Min(gs.players[i].chips, blind)
         IN [gs EXCEPT !.players[i].currentBet = amount,
                       !.players[i].totalBet = amount,
                       !.players[i].chips = @ - amount,
                       !.players[i].isAllIn =
                            IF gs.players[i].chips - amount = 0 THEN TRUE ELSE @,
                       !.pot = @ + amount]

placeBlinds(gs) ==
    LET isHeadsUp == NumPlayers(gs) = 2
        smallBlindPlayer ==
            FirstOf({ i \in Seats(gs) :
                        \/ gs.players[i].role = SMALL_BLIND
                        \/ (isHeadsUp /\ gs.players[i].role = DEALER) })
        bigBlindPlayer == FirstOf({ i \in Seats(gs) : gs.players[i].role = BIG_BLIND })
    IN postBlind(postBlind(gs, smallBlindPlayer, gs.smallBlind),
                 bigBlindPlayer, gs.bigBlind)

\* hole cards dealt to the players who still hold chips after the blinds
dealHoleCardsToChipHolders(gs) ==
    [gs EXCEPT !.players =
        [ i \in Seats(gs) |->
            IF gs.players[i].chips > 0 /\ gs.players[i].role # VIEWER
            THEN [gs.players[i] EXCEPT !.hand = Max(@, 2)]
            ELSE gs.players[i] ]]

\* Deck.dealToPlayers over the players dealHoleCards selects: two rounds of one card
dealHoleCards(gs) ==
    [gs EXCEPT !.players =
        [ i \in Seats(gs) |->
            IF (gs.players[i].chips > 0 \/ gs.players[i].totalBet > 0)
               /\ gs.players[i].role # VIEWER
            THEN [gs.players[i] EXCEPT !.hand = Max(@, 2)]
            ELSE gs.players[i] ]]

setPREFLOPFirstPlayer(gs) ==
    LET bigBlindIndex == FirstOf({ i \in Seats(gs) : gs.players[i].role = BIG_BLIND })
    IN IF bigBlindIndex # NoPlayer
       THEN [gs EXCEPT !.currentPlayerIndex = (bigBlindIndex + 1) % NumPlayers(gs)]
       ELSE gs

\* a startNewHand that deals without looking for a tournament winner
startNewHandAlwaysDeals(gs) ==
    LET g1 == setupNewHand([gs EXCEPT !.winners = <<>>])
        g2 == placeBlinds(g1)
        g3 == dealHoleCards(g2)
        g4 == [g3 EXCEPT !.round = "PREFLOP"]
    IN [ gs |-> setPREFLOPFirstPlayer(g4), dealt |-> TRUE ]

\* startNewHand: the new GameState and whether a hand was dealt
startNewHand(gs) ==
    IF hasTournamentWinner(gs)
    THEN [ gs |-> [gs EXCEPT !.tournamentWinner = getTournamentWinner(gs),
                             !.gameEnded = TRUE],
           dealt |-> FALSE ]
    ELSE LET g1 == setupNewHand([gs EXCEPT !.winners = <<>>])
             g2 == placeBlinds(g1)
             g3 == dealHoleCards(g2)
             g4 == [g3 EXCEPT !.round = "PREFLOP"]
         IN [ gs |-> setPREFLOPFirstPlayer(g4), dealt |-> TRUE ]

\* ------------------------------------------------- action validation
\* An Action is [playerId, type, amount]; amount 0 stands for an absent amount.
findPlayer(gs, playerId) == IF playerId \in Seats(gs) THEN playerId ELSE NoPlayer

getAllowedActions(gs, i) ==
    LET player == gs.players[i]
        callAmount == Max(0, getHighestCurrentBet(gs) - player.currentBet)
    IN IF player.role = VIEWER THEN {}
       ELSE IF player.isAllIn THEN {"fold", "check"}
       ELSE IF player.chips = 0 THEN {"fold"}
       ELSE {"fold", "all-in"}
            \cup (IF callAmount = 0 THEN {"check"} ELSE {"call"})
            \cup (IF player.chips + player.currentBet >= getMinimumRaise(gs)
                  THEN {"raise"} ELSE {})

\* a validation that asks for a raise above the minimum raise
validateActionAboveMinimum(gs, action) ==
    LET i == findPlayer(gs, action.playerId)
        player == gs.players[i]
        callAmount == Max(0, getHighestCurrentBet(gs) - player.currentBet)
        minRaise == getMinimumRaise(gs)
        allowedActions == getAllowedActions(gs, i)
    IN IF i = NoPlayer THEN FALSE
       ELSE IF player.role = VIEWER THEN FALSE
       ELSE IF player.isFolded THEN FALSE
       ELSE IF player.isAllIn THEN action.type \in {"fold", "check"}
       ELSE IF player.chips = 0 THEN FALSE
       ELSE CASE action.type = "fold" -> "fold" \in allowedActions
              [] action.type = "check" ->
                    IF callAmount > 0 THEN FALSE ELSE "check" \in allowedActions
              [] action.type = "call" ->
                    IF callAmount = 0 THEN FALSE ELSE "call" \in allowedActions
              [] action.type = "raise" ->
                    IF "raise" \notin allowedActions THEN FALSE
                    ELSE IF action.amount = 0 \/ action.amount <= minRaise THEN FALSE
                    ELSE IF action.amount > player.chips + player.currentBet THEN FALSE
                    ELSE TRUE
              [] action.type = "all-in" -> "all-in" \in allowedActions
              [] OTHER -> FALSE

\* PlayerActions.validatePlayerAction: the isValid field of the result
validateAction(gs, action) ==
    LET i == findPlayer(gs, action.playerId)
        player == gs.players[i]
        callAmount == Max(0, getHighestCurrentBet(gs) - player.currentBet)
        minRaise == getMinimumRaise(gs)
        allowedActions == getAllowedActions(gs, i)
    IN IF i = NoPlayer THEN FALSE
       ELSE IF player.role = VIEWER THEN FALSE
       ELSE IF player.isFolded THEN FALSE
       ELSE IF player.isAllIn THEN action.type \in {"fold", "check"}
       ELSE IF player.chips = 0 THEN FALSE
       ELSE CASE action.type = "fold" -> "fold" \in allowedActions
              [] action.type = "check" ->
                    IF callAmount > 0 THEN FALSE ELSE "check" \in allowedActions
              [] action.type = "call" ->
                    IF callAmount = 0 THEN FALSE ELSE "call" \in allowedActions
              [] action.type = "raise" ->
                    IF "raise" \notin allowedActions THEN FALSE
                    ELSE IF action.amount = 0 \/ action.amount < minRaise THEN FALSE
                    ELSE IF action.amount > player.chips + player.currentBet THEN FALSE
                    ELSE TRUE
              [] action.type = "all-in" -> "all-in" \in allowedActions
              [] OTHER -> FALSE

shouldHandEndEarly(gs) == Cardinality(getActivePlayers(gs)) <= 1

\* PokerGame.validatePlayerAction
validatePlayerAction(gs, action) ==
    IF shouldHandEndEarly(gs) THEN FALSE ELSE validateAction(gs, action)

\* ------------------------------------------------- action processing
\* a raise that leaves the other players' hasActed as it was
reopenActionKeepsActed(players, i) == players

\* the raiser's bet reopens the action for the others still able to bet
reopenAction(players, i) ==
    [ q \in DOMAIN players |->
        IF q # i /\ ~players[q].isFolded /\ ~players[q].isAllIn
        THEN [players[q] EXCEPT !.hasActed = FALSE]
        ELSE players[q] ]

processFold(gs, i) ==
    [gs EXCEPT !.players[i].isFolded = TRUE, !.players[i].hasActed = TRUE]

processCheck(gs, i) == [gs EXCEPT !.players[i].hasActed = TRUE]

\* a call that moves the chips to currentBet and totalBet but not to the pot
processCallWithoutPot(gs, i) ==
    LET player == gs.players[i]
        callAmount == Max(0, getHighestCurrentBet(gs) - player.currentBet)
        actualCall == Min(callAmount, player.chips)
    IN [gs EXCEPT !.players[i].chips = @ - actualCall,
                  !.players[i].currentBet = @ + actualCall,
                  !.players[i].totalBet = @ + actualCall,
                  !.players[i].hasActed = TRUE,
                  !.players[i].isAllIn = IF player.chips - actualCall = 0 THEN TRUE ELSE @]

processCall(gs, i) ==
    LET player == gs.players[i]
        callAmount == Max(0, getHighestCurrentBet(gs) - player.currentBet)
        actualCall == Min(callAmount, player.chips)
    IN [gs EXCEPT !.players[i].chips = @ - actualCall,
                  !.players[i].currentBet = @ + actualCall,
                  !.players[i].totalBet = @ + actualCall,
                  !.players[i].hasActed = TRUE,
                  !.players[i].isAllIn = IF player.chips - actualCall = 0 THEN TRUE ELSE @,
                  !.pot = @ + actualCall]

\* a raise that adds the whole bet, not the chips put in, to totalBet
processRaiseCountsWholeBet(gs, i, amount) ==
    LET player == gs.players[i]
        highestBet == getHighestCurrentBet(gs)
        raiseTotal == Min(amount, player.chips + player.currentBet)
        actualRaise == raiseTotal - player.currentBet
        paid == [gs EXCEPT !.players[i].chips = @ - actualRaise,
                           !.players[i].currentBet = raiseTotal,
                           !.players[i].totalBet = @ + raiseTotal,
                           !.players[i].hasActed = TRUE,
                           !.pot = @ + actualRaise,
                           !.lastRaise = raiseTotal - highestBet,
                           !.minBet = raiseTotal]
        reopened == [paid EXCEPT !.players = reopenAction(paid.players, i)]
    IN IF amount = 0 THEN gs
       ELSE [reopened EXCEPT !.players[i].isAllIn =
                                IF player.chips - actualRaise = 0 THEN TRUE ELSE @]

processRaise(gs, i, amount) ==
    LET player == gs.players[i]
        highestBet == getHighestCurrentBet(gs)
        raiseTotal == Min(amount, player.chips + player.currentBet)
        actualRaise == raiseTotal - player.currentBet
        paid == [gs EXCEPT !.players[i].chips = @ - actualRaise,
                           !.players[i].currentBet = raiseTotal,
                           !.players[i].totalBet = @ + actualRaise,
                           !.players[i].hasActed = TRUE,
                           !.pot = @ + actualRaise,
                           !.lastRaise = raiseTotal - highestBet,
                           !.minBet = raiseTotal]
        reopened == [paid EXCEPT !.players = reopenAction(paid.players, i)]
    IN IF amount = 0 THEN gs
       ELSE [reopened EXCEPT !.players[i].isAllIn =
                                IF player.chips - actualRaise = 0 THEN TRUE ELSE @]

processAllIn(gs, i) ==
    LET player == gs.players[i]
        highestBet == getHighestCurrentBet(gs)
        allInAmount == player.chips
        newBet == player.currentBet + allInAmount
        paid == [gs EXCEPT !.players[i].chips = 0,
                           !.players[i].currentBet = newBet,
                           !.players[i].totalBet = @ + allInAmount,
                           !.players[i].isAllIn = TRUE,
                           !.players[i].hasActed = TRUE,
                           !.pot = @ + allInAmount]
    IN IF newBet > highestBet
       THEN [paid EXCEPT !.lastRaise = newBet - highestBet,
                         !.minBet = newBet,
                         !.players = reopenAction(paid.players, i)]
       ELSE paid

processValidatedAction(gs, action) ==
    LET i == findPlayer(gs, action.playerId)
    IN IF i = NoPlayer THEN gs
       ELSE CASE action.type = "fold" -> processFold(gs, i)
              [] action.type = "check" -> processCheck(gs, i)
              [] action.type = "call" -> processCall(gs, i)
              [] action.type = "raise" -> processRaise(gs, i, action.amount)
              [] action.type = "all-in" -> processAllIn(gs, i)
              [] OTHER -> gs

\* ------------------------------------------------------ automatic win
\* an automatic win that moves to SHOWDOWN without recording the winner
handleAutomaticWinWithoutWinners(gs) ==
    LET activePlayers == SeatOrder(getActivePlayers(gs))
    IN IF Len(activePlayers) = 1
       THEN [ gs |-> [gs EXCEPT !.round = "SHOWDOWN"], win |-> TRUE ]
       ELSE IF Len(activePlayers) = 0
       THEN [ gs |-> [gs EXCEPT !.round = "SHOWDOWN"], win |-> FALSE ]
       ELSE [ gs |-> gs, win |-> FALSE ]

\* handleAutomaticWin: the GameState it leaves and whether it returned a winner
handleAutomaticWin(gs) ==
    LET activePlayers == SeatOrder(getActivePlayers(gs))
    IN IF Len(activePlayers) = 1
       THEN [ gs |-> [gs EXCEPT !.round = "SHOWDOWN", !.winners = activePlayers],
              win |-> TRUE ]
       ELSE IF Len(activePlayers) = 0
       THEN [ gs |-> [gs EXCEPT !.round = "SHOWDOWN"], win |-> FALSE ]
       ELSE [ gs |-> gs, win |-> FALSE ]

\* a processAction that applies the action before it validates it
processActionAppliesFirst(gs, action) ==
    LET autoWin == handleAutomaticWin(gs)
        g1 == autoWin.gs
        g2 == processValidatedAction(g1, action)
        autoWinAfterFold == handleAutomaticWin(g2)
    IN IF autoWin.win
       THEN [ gs |-> g1, success |-> TRUE, outcome |-> "autoWin" ]
       ELSE IF ~validatePlayerAction(g1, action)
       THEN [ gs |-> g2, success |-> FALSE, outcome |-> "rejected" ]
       ELSE IF action.type = "fold"
       THEN [ gs |-> autoWinAfterFold.gs, success |-> TRUE, outcome |-> "applied" ]
       ELSE [ gs |-> g2, success |-> TRUE, outcome |-> "applied" ]

\* PokerGame.processAction: the GameState it leaves, its success field, and
\* how it returned (autoWin: the win result, the action untouched)
processAction(gs, action) ==
    LET autoWin == handleAutomaticWin(gs)
        g1 == autoWin.gs
        g2 == processValidatedAction(g1, action)
        autoWinAfterFold == handleAutomaticWin(g2)
    IN IF autoWin.win
       THEN [ gs |-> g1, success |-> TRUE, outcome |-> "autoWin" ]
       ELSE IF ~validatePlayerAction(g1, action)
       THEN [ gs |-> g1, success |-> FALSE, outcome |-> "rejected" ]
       ELSE IF action.type = "fold"
       THEN [ gs |-> autoWinAfterFold.gs, success |-> TRUE, outcome |-> "applied" ]
       ELSE [ gs |-> g2, success |-> TRUE, outcome |-> "applied" ]

\* ------------------------------------------------------ betting rounds
\* a completion test that looks at the bets only, not at who has acted
isBettingRoundCompleteByBets(gs) ==
    LET activePlayers == getActivePlayers(gs)
        highestBet == getHighestCurrentBet(gs)
    IN \A i \in activePlayers :
            gs.players[i].currentBet = highestBet \/ gs.players[i].isAllIn

isBettingRoundComplete(gs) ==
    LET activePlayers == getActivePlayers(gs)
        playersInUIAction == getPlayersInUIAction(gs)
        playersWhoCanBet == { i \in activePlayers : ~gs.players[i].isAllIn }
        highestBet == getHighestCurrentBet(gs)
    IN IF Cardinality(playersWhoCanBet) <= 1
       THEN \A i \in playersInUIAction : ~gs.players[i].isAllIn => gs.players[i].hasActed
       ELSE /\ \A i \in playersInUIAction : gs.players[i].hasActed
            /\ \A i \in activePlayers :
                    gs.players[i].currentBet = highestBet \/ gs.players[i].isAllIn

\* PokerGame.isBettingRoundComplete
gameIsBettingRoundComplete(gs) ==
    IF shouldHandEndEarly(gs) THEN TRUE ELSE isBettingRoundComplete(gs)

collectBets(gs) ==
    [gs EXCEPT !.players = [ i \in Seats(gs) |-> [gs.players[i] EXCEPT !.currentBet = 0] ]]

resetBettingRound(gs) ==
    [gs EXCEPT !.players = [ i \in Seats(gs) |-> [gs.players[i] EXCEPT !.hasActed = FALSE] ],
               !.minBet = gs.bigBlind,
               !.lastRaise = gs.bigBlind]

\* the seats after currentPlayerIndex in seat order, wrapping, the seat itself last
seatsAfter(gs, from) ==
    [ k \in 1..NumPlayers(gs) |-> (from + k) % NumPlayers(gs) ]

setPostFLOPFirstPlayer(gs) ==
    LET order == seatsAfter(gs, gs.currentPlayerIndex)
        ok == { k \in 1..Len(order) :
                    /\ ~gs.players[order[k]].isFolded
                    /\ gs.players[order[k]].role # VIEWER }
    IN IF ok = {} THEN gs
       ELSE [gs EXCEPT !.currentPlayerIndex = order[FirstOf(ok)]]

getNextActivePlayerIndex(gs) ==
    LET order == seatsAfter(gs, gs.currentPlayerIndex)
        \* the loop gives up on its playerCount-th attempt, before testing that seat
        ok == { k \in 1..(Len(order) - 1) :
                    ~ \/ gs.players[order[k]].isFolded
                      \/ gs.players[order[k]].role = VIEWER
                      \/ (gs.players[order[k]].chips = 0 /\ ~gs.players[order[k]].isAllIn) }
    IN IF ok = {} THEN gs.currentPlayerIndex ELSE order[FirstOf(ok)]

\* an advance whose FLOP case moves to RIVER
engineAdvanceSkipsTurn(gs) ==
    LET collected == resetBettingRound(collectBets(gs))
    IN IF ~isBettingRoundComplete(gs)
       THEN [ gs |-> gs, threw |-> "BettingNotComplete" ]
       ELSE IF Cardinality(getActivePlayers(collected)) <= 1
       THEN [ gs |-> [collected EXCEPT !.round = "SHOWDOWN"], threw |-> "" ]
       ELSE CASE gs.round = "PREFLOP" ->
                    [ gs |-> setPostFLOPFirstPlayer([collected EXCEPT !.round = "FLOP"]),
                      threw |-> "" ]
              [] gs.round = "FLOP" ->
                    [ gs |-> setPostFLOPFirstPlayer([collected EXCEPT !.round = "RIVER"]),
                      threw |-> "" ]
              [] gs.round = "TURN" ->
                    [ gs |-> setPostFLOPFirstPlayer([collected EXCEPT !.round = "RIVER"]),
                      threw |-> "" ]
              [] gs.round = "RIVER" ->
                    [ gs |-> [collected EXCEPT !.round = "CARD_REVEAL"], threw |-> "" ]
              [] OTHER -> [ gs |-> collected, threw |-> "CannotAdvance" ]

\* GameEngine.advanceToNextRound: the GameState it leaves and the error it threw
engineAdvanceToNextRound(gs) ==
    LET collected == resetBettingRound(collectBets(gs))
    IN IF ~isBettingRoundComplete(gs)
       THEN [ gs |-> gs, threw |-> "BettingNotComplete" ]
       ELSE IF Cardinality(getActivePlayers(collected)) <= 1
       THEN [ gs |-> [collected EXCEPT !.round = "SHOWDOWN"], threw |-> "" ]
       ELSE CASE gs.round = "PREFLOP" ->
                    [ gs |-> setPostFLOPFirstPlayer([collected EXCEPT !.round = "FLOP"]),
                      threw |-> "" ]
              [] gs.round = "FLOP" ->
                    [ gs |-> setPostFLOPFirstPlayer([collected EXCEPT !.round = "TURN"]),
                      threw |-> "" ]
              [] gs.round = "TURN" ->
                    [ gs |-> setPostFLOPFirstPlayer([collected EXCEPT !.round = "RIVER"]),
                      threw |-> "" ]
              [] gs.round = "RIVER" ->
                    [ gs |-> [collected EXCEPT !.round = "CARD_REVEAL"], threw |-> "" ]
              [] OTHER -> [ gs |-> collected, threw |-> "CannotAdvance" ]

\* PokerGame.advanceToNextRound
advanceToNextRound(gs) ==
    LET autoWin == handleAutomaticWin(gs)
    IN IF autoWin.win THEN [ gs |-> autoWin.gs, threw |-> "" ]
       ELSE engineAdvanceToNextRound(autoWin.gs)

\* ---------------------------------------------------- community cards
\* burn-then-deal of 3 / 1 / 1 cards; the board is kept by its length
dealCommunityCards(gs, count) ==
    IF count = 3 /\ gs.communityCards = 0 THEN [gs EXCEPT !.communityCards = 3]
    ELSE IF count = 1 /\ gs.communityCards = 3 THEN [gs EXCEPT !.communityCards = 4]
    ELSE IF count = 1 /\ gs.communityCards = 4 THEN [gs EXCEPT !.communityCards = 5]
    ELSE gs

\* -------------------------------------------------------------- pots
\* [...activePlayers].sort((a, b) => a.totalBet - b.totalBet): a stable sort of the
\* contributors, so equal bets stay in seat order
RECURSIVE sortByBet(_, _)
sortByBet(gs, S) ==
    IF S = {} THEN <<>>
    ELSE LET m == CHOOSE x \in S :
                    \A y \in S :
                        \/ gs.players[x].totalBet < gs.players[y].totalBet
                        \/ (gs.players[x].totalBet = gs.players[y].totalBet /\ x <= y)
         IN <<m>> \o sortByBet(gs, S \ {m})

\* Array.prototype.filter over an array of seat indices
RECURSIVE filterNotFolded(_, _)
filterNotFolded(gs, s) ==
    IF s = <<>> THEN <<>>
    ELSE IF gs.players[Head(s)].isFolded THEN filterNotFolded(gs, Tail(s))
    ELSE <<Head(s)>> \o filterNotFolded(gs, Tail(s))

\* the loop of createAllPots from index i (1-based) on
RECURSIVE createPotsFrom(_, _, _, _, _, _)
createPotsFrom(gs, sortedByBet, i, currentLevel, remainingPot, pots) ==
    IF i > Len(sortedByBet) THEN [ pots |-> pots, remainingPot |-> remainingPot ]
    ELSE LET betLevel == gs.players[sortedByBet[i]].totalBet
             calculatedAmount == (betLevel - currentLevel) * (Len(sortedByBet) - (i - 1))
             potAmount == Min(calculatedAmount, remainingPot)
             eligiblePlayers ==
                filterNotFolded(gs, SubSeq(sortedByBet, i, Len(sortedByBet)))
         IN IF betLevel > currentLevel /\ remainingPot > 0
            THEN IF potAmount > 0 /\ Len(eligiblePlayers) > 0
                 THEN createPotsFrom(gs, sortedByBet, i + 1, betLevel,
                                     remainingPot - potAmount,
                                     Append(pots, [ amount |-> potAmount,
                                                    eligiblePlayers |-> eligiblePlayers,
                                                    isMainPot |-> (i = 1),
                                                    maxContribution |-> betLevel ]))
                 ELSE createPotsFrom(gs, sortedByBet, i + 1, betLevel, remainingPot, pots)
            ELSE createPotsFrom(gs, sortedByBet, i + 1, currentLevel, remainingPot, pots)

\* pots built over the contributors in seat order, without the sort by totalBet
createAllPotsUnsorted(gs) ==
    LET activePlayers == { i \in Seats(gs) : gs.players[i].totalBet > 0 }
        sortedByBet == SeatOrder(activePlayers)
        built == createPotsFrom(gs, sortedByBet, 1, 0, gs.pot, <<>>)
    IN IF activePlayers = {} \/ gs.pot = 0 THEN <<>>
       ELSE IF built.remainingPot > 0 /\ Len(built.pots) > 0
       THEN [built.pots EXCEPT ![1].amount = @ + built.remainingPot]
       ELSE built.pots

createAllPots(gs) ==
    LET activePlayers == { i \in Seats(gs) : gs.players[i].totalBet > 0 }
        sortedByBet == sortByBet(gs, activePlayers)
        built == createPotsFrom(gs, sortedByBet, 1, 0, gs.pot, <<>>)
    IN IF activePlayers = {} \/ gs.pot = 0 THEN <<>>
       ELSE IF built.remainingPot > 0 /\ Len(built.pots) > 0
       THEN [built.pots EXCEPT ![1].amount = @ + built.remainingPot]
       ELSE built.pots

potsTotal(pots) == SumSeq([ k \in 1..Len(pots) |-> pots[k].amount ])

\* ---------------------------------------------------------- showdown
\* A showdown compares the best hands of the contenders.  ev[i] stands for the
\* evaluation of seat i's best hand (higher is better, equal is a tie): the deck
\* is shuffled at random, so a showdown may meet any assignment ev.
Evaluations(gs) == [ Seats(gs) -> 1..MaxStrength ]

\* a showdown that returns the first of the best contenders only
SHOWDOWNFirstBest(gs, players, ev) ==
    LET contenders == filterNotFolded(gs, players)
        best == CHOOSE b \in { ev[contenders[k]] : k \in 1..Len(contenders) } :
                    \A k \in 1..Len(contenders) : ev[contenders[k]] <= b
        isBest(i) == ev[i] = best
    IN IF gs.communityCards < 3 \/ gs.communityCards > 5
       THEN [ threw |-> TRUE, winners |-> <<>> ]
       ELSE IF Len(contenders) = 0
       THEN [ threw |-> TRUE, winners |-> <<>> ]
       ELSE IF \E k \in 1..Len(contenders) : gs.players[contenders[k]].hand # 2
       THEN [ threw |-> TRUE, winners |-> <<>> ]
       ELSE [ threw |-> FALSE, winners |-> <<Head(SelectSeq(contenders, isBest))>> ]

\* GameEngine.SHOWDOWN: the winners in the order of the contenders, or the throw
SHOWDOWN(gs, players, ev) ==
    LET contenders == filterNotFolded(gs, players)
        best == CHOOSE b \in { ev[contenders[k]] : k \in 1..Len(contenders) } :
                    \A k \in 1..Len(contenders) : ev[contenders[k]] <= b
        isBest(i) == ev[i] = best
    IN IF gs.communityCards < 3 \/ gs.communityCards > 5
       THEN [ threw |-> TRUE, winners |-> <<>> ]
       ELSE IF Len(contenders) = 0
       THEN [ threw |-> TRUE, winners |-> <<>> ]
       ELSE IF \E k \in 1..Len(contenders) : gs.players[contenders[k]].hand # 2
       THEN [ threw |-> TRUE, winners |-> <<>> ]
       ELSE [ threw |-> FALSE, winners |-> SelectSeq(contenders, isBest) ]

\* -------------------------------------------------------- distribution
\* a share whose extra chip also goes to the winner at position remainder
winnerAmountOffByOne(amount, count, index) ==
    (amount \div count) + (IF index <= amount % count THEN 1 ELSE 0)

\* the share of the winner at 0-based position index of a split pot
winnerAmount(amount, count, index) ==
    (amount \div count) + (IF index < amount % count THEN 1 ELSE 0)

\* a PotDistribution is [player, amount, potId]
distributeSinglePot(gs, pot, potId, ev) ==
    LET eligiblePlayers == filterNotFolded(gs, pot.eligiblePlayers)
        shown == SHOWDOWN(gs, eligiblePlayers, ev)
        winners == shown.winners
        paid(i) == SumSeq([ k \in 1..Len(winners) |->
                              IF winners[k] = i
                              THEN winnerAmount(pot.amount, Len(winners), k - 1) ELSE 0 ])
    IN IF Len(eligiblePlayers) = 0
       THEN [ gs |-> gs, distributions |-> <<>>, totalDistributed |-> 0, threw |-> FALSE ]
       ELSE IF Len(eligiblePlayers) = 1
       THEN [ gs |-> [gs EXCEPT !.players[eligiblePlayers[1]].chips = @ + pot.amount],
              distributions |-> << [ player |-> eligiblePlayers[1], amount |-> pot.amount,
                                     potId |-> potId ] >>,
              totalDistributed |-> pot.amount,
              threw |-> FALSE ]
       ELSE IF shown.threw
       THEN [ gs |-> gs, distributions |-> <<>>, totalDistributed |-> 0, threw |-> TRUE ]
       ELSE [ gs |-> [gs EXCEPT !.players =
                        [ i \in Seats(gs) |->
                            [gs.players[i] EXCEPT !.chips = @ + paid(i)] ]],
              distributions |->
                [ k \in 1..Len(winners) |->
                    [ player |-> winners[k],
                      amount |-> winnerAmount(pot.amount, Len(winners), k - 1),
                      potId |-> potId ] ],
              totalDistributed |-> pot.amount,
              threw |-> FALSE ]

\* the for loop of distributeAllPots over pots[k..]; a throw leaves the loop
RECURSIVE distributePotsFrom(_, _, _, _, _, _)
distributePotsFrom(gs, pots, k, ev, distributions, totalDistributed) ==
    IF k > Len(pots)
    THEN [ gs |-> gs, distributions |-> distributions,
           totalDistributed |-> totalDistributed, threw |-> FALSE ]
    ELSE LET result == distributeSinglePot(gs, pots[k], k - 1, ev)
         IN IF result.threw
            THEN [ gs |-> result.gs, distributions |-> distributions,
                   totalDistributed |-> totalDistributed, threw |-> TRUE ]
            ELSE distributePotsFrom(result.gs, pots, k + 1, ev,
                                    distributions \o result.distributions,
                                    totalDistributed + result.totalDistributed)

\* a distribution that leaves the pot as it was
potKeptAfterDistribution(pot) == pot

\* distributeAllPots clears gameState.pot once the pots are paid
potAfterDistribution(pot) == 0

distributeAllPots(gs, pots, ev) ==
    LET result == distributePotsFrom(gs, pots, 1, ev, <<>>, 0)
    IN IF result.threw THEN result
       ELSE [result EXCEPT !.gs.pot = potAfterDistribution(@)]

\* the players of the distributions, each once, in the order of first appearance
RECURSIVE uniquePlayers(_, _)
uniquePlayers(distributions, seen) ==
    IF distributions = <<>> THEN <<>>
    ELSE IF Head(distributions).player \in seen
    THEN uniquePlayers(Tail(distributions), seen)
    ELSE <<Head(distributions).player>>
         \o uniquePlayers(Tail(distributions), seen \cup {Head(distributions).player})

\* the safety net splitting among every player whose isFolded flag is not set
fallbackSplitAmongNotFolded(gs) ==
    LET fallbackWinners == SeatOrder({ i \in Seats(gs) : ~gs.players[i].isFolded })
        count == Len(fallbackWinners)
        share(i) == SumSeq([ k \in 1..count |->
                               IF fallbackWinners[k] = i
                               THEN winnerAmount(gs.pot, count, k - 1) ELSE 0 ])
        paid == [gs EXCEPT !.players =
                    [ i \in Seats(gs) |-> [gs.players[i] EXCEPT !.chips = @ + share(i)] ]]
    IN IF count = 0 THEN [gs EXCEPT !.pot = 0]
       ELSE [paid EXCEPT !.pot = 0,
                         !.winners = IF gs.round = "SHOWDOWN" THEN fallbackWinners ELSE @]

\* the safety net splitting among every non-Viewer player, folded or not
fallbackSplitAmongSeated(gs) ==
    LET fallbackWinners == SeatOrder({ i \in Seats(gs) : gs.players[i].role # VIEWER })
        count == Len(fallbackWinners)
        share(i) == SumSeq([ k \in 1..count |->
                               IF fallbackWinners[k] = i
                               THEN winnerAmount(gs.pot, count, k - 1) ELSE 0 ])
        paid == [gs EXCEPT !.players =
                    [ i \in Seats(gs) |-> [gs.players[i] EXCEPT !.chips = @ + share(i)] ]]
    IN IF count = 0 THEN [gs EXCEPT !.pot = 0]
       ELSE [paid EXCEPT !.pot = 0,
                         !.winners = IF gs.round = "SHOWDOWN" THEN fallbackWinners ELSE @]

\* the safety net of distributePot when createAllPots returns no pot
fallbackSplit(gs) ==
    LET fallbackWinners == SeatOrder(getActivePlayers(gs))
        count == Len(fallbackWinners)
        share(i) == SumSeq([ k \in 1..count |->
                               IF fallbackWinners[k] = i
                               THEN winnerAmount(gs.pot, count, k - 1) ELSE 0 ])
        paid == [gs EXCEPT !.players =
                    [ i \in Seats(gs) |-> [gs.players[i] EXCEPT !.chips = @ + share(i)] ]]
    IN IF count = 0 THEN [gs EXCEPT !.pot = 0]
       ELSE [paid EXCEPT !.pot = 0,
                         !.winners = IF gs.round = "SHOWDOWN" THEN fallbackWinners ELSE @]

\* PokerGame.distributePot: the GameState it leaves, the distributions made by
\* distributeAllPots and whether the call threw
distributePot(gs, ev) ==
    LET pots == createAllPots(gs)
        potResult == distributeAllPots(gs, pots, ev)
    IN IF gs.pot = 0 THEN [ gs |-> gs, distributions |-> <<>>, threw |-> FALSE ]
       ELSE IF Len(pots) = 0
       THEN [ gs |-> fallbackSplit(gs), distributions |-> <<>>, threw |-> FALSE ]
       ELSE IF potResult.threw
       THEN [ gs |-> potResult.gs, distributions |-> potResult.distributions, threw |-> TRUE ]
       ELSE [ gs |-> IF Len(potResult.distributions) > 0 /\ gs.round = "SHOWDOWN"
                     THEN [potResult.gs EXCEPT
                              !.winners = uniquePlayers(potResult.distributions, {})]
                     ELSE potResult.gs,
              distributions |-> potResult.distributions,
              threw |-> FALSE ]

advanceToShowdownWithWinners(gs, ev) ==
    LET atShowdown == [gs EXCEPT !.round = "SHOWDOWN"]
    IN IF gs.pot > 0 THEN distributePot(atShowdown, ev)
       ELSE [ gs |-> atShowdown, distributions |-> <<>>, threw |-> FALSE ]

\* -------------------------------------------------------------- state
Init ==
    /\ \E n \in MIN_PLAYERS..MaxSeats : gameState = initializeGame(n)
    /\ handNumber = 0

\* the callers start a hand when the game is created and once the pot of a
\* showdown is paid out; MaxDealt bounds the hole-card pairs dealt in a game
StartNewHand ==
    /\ (handNumber + 1) * NumPlayers(gameState) <= MaxDealt
    /\ handNumber = 0 \/ (gameState.round = "SHOWDOWN" /\ gameState.pot = 0)
    /\ LET r == startNewHand(gameState)
       IN /\ gameState' = r.gs
          /\ handNumber' = IF r.dealt THEN handNumber + 1 ELSE handNumber

\* the amounts a client submits with a raise: one below every minimum, one legal
Amounts == {10, 40}

totalBets(gs) == SumOver([ i \in Seats(gs) |-> gs.players[i].totalBet ], Seats(gs))

\* the hand is in play: it has been dealt and its pot has not been paid out
inPlay(gs) == handNumber > 0 /\ gs.pot = totalBets(gs)

\* the actions submitted, by any seat in any order (no caller checks the turn)
\* and by one unknown id; a raise only while the bets of the hand are at most
\* RaiseCap
Actions(gs) ==
    [ playerId : Seats(gs), type : {"fold", "check", "call", "all-in"}, amount : {0} ]
    \cup { [ playerId |-> NumPlayers(gs), type |-> "check", amount |-> 0 ] }
    \cup (IF totalBets(gs) <= RaiseCap
          THEN [ playerId : Seats(gs), type : {"raise"}, amount : Amounts ]
          ELSE {})

ProcessAction ==
    /\ inPlay(gameState)
    /\ \E action \in Actions(gameState) :
          /\ gameState' = processAction(gameState, action).gs
          /\ UNCHANGED handNumber

\* the callers deal after an advance, by the round it reached: 3 cards on FLOP,
\* 1 on TURN and on RIVER
dealCount(before, after) ==
    IF before = "PREFLOP" /\ after = "FLOP" THEN 3
    ELSE IF before = "FLOP" /\ after = "TURN" THEN 1
    ELSE IF before = "TURN" /\ after = "RIVER" THEN 1
    ELSE 0

AdvanceToNextRound ==
    /\ inPlay(gameState)
    /\ LET advanced == advanceToNextRound(gameState).gs
       IN gameState' = dealCommunityCards(advanced,
                                          dealCount(gameState.round, advanced.round))
    /\ UNCHANGED handNumber

\* the callers distribute the pot once the hand is at SHOWDOWN
DistributePot ==
    /\ gameState.round = "SHOWDOWN"
    /\ \E ev \in Evaluations(gameState) :
          /\ gameState' = distributePot(gameState, ev).gs
          /\ UNCHANGED handNumber

\* the card-reveal timer: called once the hand is at CARD_REVEAL
AdvanceToShowdownWithWinners ==
    /\ gameState.round = "CARD_REVEAL"
    /\ \E ev \in Evaluations(gameState) :
          /\ gameState' = advanceToShowdownWithWinners(gameState, ev).gs
          /\ UNCHANGED handNumber

Next ==
    \/ StartNewHand
    \/ ProcessAction
    \/ AdvanceToNextRound
    \/ DistributePot
    \/ AdvanceToShowdownWithWinners

Spec == Init /\ [][Next]_vars

\* ------------------------------------------------- showdowns by themselves
\* createAllPots and distributeAllPots read the bets, the folds and the pot only.
\* A showdown on a full board: seat i has put bets[i] in the pot of this hand and
\* has folded or not; a seat still in the hand with less than the highest live
\* bet is all-in.
showdownState(n, bets, folded) ==
    LET base == initializeGame(n)
        live == { bets[i] : i \in { j \in 0..(n - 1) : ~folded[j] } }
        highest == CHOOSE m \in live : \A b \in live : b <= m
        allIn(i) == ~folded[i] /\ bets[i] < highest
    IN [base EXCEPT
          !.players = [ i \in 0..(n - 1) |->
                          [base.players[i] EXCEPT
                              !.totalBet = bets[i],
                              !.isFolded = folded[i],
                              !.isAllIn = allIn(i),
                              !.chips = IF allIn(i) THEN 0 ELSE initialChips - bets[i],
                              !.hand = 2] ],
          !.pot = SumOver(bets, 0..(n - 1)),
          !.communityCards = 5,
          !.round = "SHOWDOWN"]

InitPots ==
    /\ \E n \in MIN_PLAYERS..MaxSeats :
          \E bets \in [0..(n - 1) -> 0..MaxBet], folded \in [0..(n - 1) -> BOOLEAN] :
              /\ \E i \in 0..(n - 1) : ~folded[i]
              /\ \A i \in 0..(n - 1) : ~folded[i] => bets[i] > 0
              /\ gameState = showdownState(n, bets, folded)
    /\ handNumber = 1

NextPots == DistributePot

SpecPots == InitPots /\ [][NextPots]_vars

\* ------------------------------------------------- games with eliminations
\* The same callers, with a game followed past an elimination: a hand is
\* started while the hole-card pairs dealt stay within MaxPairs, counting a full
\* table for each hand played and the players still holding chips for the next.
seatsToDeal(gs) ==
    { i \in Seats(gs) : gs.players[i].role # VIEWER /\ gs.players[i].chips > 0 }

StartHandAtTable ==
    /\ handNumber * NumPlayers(gameState) + Cardinality(seatsToDeal(gameState)) <= MaxPairs
    /\ handNumber = 0 \/ (gameState.round = "SHOWDOWN" /\ gameState.pot = 0)
    /\ LET r == startNewHand(gameState)
       IN /\ gameState' = r.gs
          /\ handNumber' = IF r.dealt THEN handNumber + 1 ELSE handNumber

\* the raise submitted at the table leaves the raiser less than a big blind
TableAmounts == {initialChips - initialSmallBlind}

\* the actions submitted at the table, by any seat in any order
TableActions(gs) ==
    [ playerId : Seats(gs), type : {"fold", "check", "call", "all-in"}, amount : {0} ]
    \cup (IF totalBets(gs) <= RaiseCap
          THEN [ playerId : Seats(gs), type : {"raise"}, amount : TableAmounts ]
          ELSE {})

ProcessActionAtTable ==
    /\ inPlay(gameState)
    /\ \E action \in TableActions(gameState) :
          /\ gameState' = processAction(gameState, action).gs
          /\ UNCHANGED handNumber

NextTable ==
    \/ StartHandAtTable
    \/ ProcessActionAtTable
    \/ AdvanceToNextRound
    \/ DistributePot
    \/ AdvanceToShowdownWithWinners

SpecTable == Init /\ [][NextTable]_vars

\* ------------------------------------------------- GameEngine.SHOWDOWN alone
\* SHOWDOWN is a static function of the players and the community cards it is
\* given: of a player it reads isFolded and the hand, of the board its length.
MaxBoard == 6

showdownInput(n, folded, hands, board) ==
    LET base == initializeGame(n)
    IN [base EXCEPT
          !.players = [ i \in 0..(n - 1) |->
                          [base.players[i] EXCEPT !.isFolded = folded[i],
                                                  !.hand = hands[i]] ],
          !.communityCards = board,
          !.round = "SHOWDOWN"]

InitShowdown ==
    /\ \E n \in MIN_PLAYERS..MaxSeats, board \in 0..MaxBoard :
          \E folded \in [0..(n - 1) -> BOOLEAN], hands \in [0..(n - 1) -> 0..2] :
              gameState = showdownInput(n, folded, hands, board)
    /\ handNumber = 1

\* the winners of a SHOWDOWN call over all the players, kept in the GameState
Showdown ==
    /\ \E ev \in Evaluations(gameState) :
          LET shown == SHOWDOWN(gameState, SeatOrder(Seats(gameState)), ev)
          IN gameState' = [gameState EXCEPT !.winners = shown.winners]
    /\ UNCHANGED handNumber

NextShowdown == Showdown

SpecShowdown == InitShowdown /\ [][NextShowdown]_vars

\* ------------------------------------------------------ cards and deck
\* The specifications above count the cards; here they are told apart. The
\* GameState of this part holds the deck, the board and the hands as sequences
\* of cards, and of a player what dealHoleCards reads.
Suits == <<"SPADES", "HEARTS", "DIAMONDS", "CLUBS">>

Ranks == <<"2", "3", "4", "5", "6", "7", "8", "9", "10", "J", "Q", "K", "A">>

\* every rank of the first suit, then of the second, and so on
ALL_CARDS ==
    [ k \in 1..(Len(Suits) * Len(Ranks)) |->
        [ rank |-> Ranks[((k - 1) % Len(Ranks)) + 1],
          suit |-> Suits[((k - 1) \div Len(Ranks)) + 1] ] ]

swap(cards, a, b) == [cards EXCEPT ![a] = cards[b], ![b] = cards[a]]

\* Deck.shuffle: for i from the last index down to 1, swap cards[i] with
\* cards[floor(rng() * (i + 1))] (indices from 0); rng() = x / RngSteps
RECURSIVE shuffleFrom(_, _, _)
shuffleFrom(cards, i, x) ==
    IF i <= 0 THEN cards
    ELSE LET j == (x * (i + 1)) \div RngSteps
         IN shuffleFrom(swap(cards, i + 1, j + 1), i - 1, x)

shuffle(cards, x) == shuffleFrom(cards, Len(cards) - 1, x)

\* a dealOne that returns the front card and leaves it in the deck
dealOneKeepsCard(cards) ==
    IF cards = <<>> THEN [ threw |-> TRUE, dealt |-> <<>>, cards |-> cards ]
    ELSE [ threw |-> FALSE, dealt |-> <<Head(cards)>>, cards |-> cards ]

\* Deck.dealOne: the front card removed and returned; throws on an empty deck
dealOne(cards) ==
    IF cards = <<>> THEN [ threw |-> TRUE, dealt |-> <<>>, cards |-> cards ]
    ELSE [ threw |-> FALSE, dealt |-> <<Head(cards)>>, cards |-> Tail(cards) ]

\* Deck.burnOne: a dealOne whose card the callers drop
burnOne(cards) == dealOne(cards)

\* one burn, then count calls of dealOne
RECURSIVE dealMany(_, _)
dealMany(cards, count) ==
    IF count = 0 THEN [ threw |-> FALSE, dealt |-> <<>>, cards |-> cards ]
    ELSE LET one == dealOne(cards)
             rest == dealMany(one.cards, count - 1)
         IN IF one.threw THEN one
            ELSE [ threw |-> rest.threw, dealt |-> one.dealt \o rest.dealt,
                   cards |-> rest.cards ]

burnThenDeal(cards, count) ==
    LET burned == burnOne(cards)
    IN IF burned.threw THEN burned ELSE dealMany(burned.cards, count)

dealFLOP(cards) == burnThenDeal(cards, 3)

dealTURN(cards) == burnThenDeal(cards, 1)

dealRIVER(cards) == burnThenDeal(cards, 1)

\* one round of Deck.dealToPlayers: a card to each player of the list, in order,
\* whose hand has fewer than 2 cards
RECURSIVE dealRound(_, _, _)
dealRound(cards, players, order) ==
    IF order = <<>> THEN [ cards |-> cards, players |-> players ]
    ELSE LET i == Head(order)
             one == dealOne(cards)
         IN IF Len(players[i].hand) < 2 /\ ~one.threw
            THEN dealRound(one.cards,
                           [players EXCEPT ![i].hand = @ \o one.dealt],
                           Tail(order))
            ELSE dealRound(cards, players, Tail(order))

dealToPlayers(cards, players, order) ==
    LET first == dealRound(cards, players, order)
    IN dealRound(first.cards, first.players, order)

\* PokerGame.dealHoleCards on the deck of startNewHand
dealHoleCardsFromDeck(gs, cards) ==
    LET activePlayers ==
            SeatOrder({ i \in Seats(gs) :
                          /\ (gs.players[i].chips > 0 \/ gs.players[i].totalBet > 0)
                          /\ gs.players[i].role # VIEWER })
        after == dealToPlayers(cards, gs.players, activePlayers)
    IN [gs EXCEPT !.players = after.players, !.deck = after.cards]

\* the cards of PokerGame.startNewHand: a new deck, reset and shuffled; the
\* board and the hands cleared by setupNewHand; the hole cards dealt
startNewHandCards(gs, x) ==
    LET deck == shuffle(ALL_CARDS, x)
        cleared == [gs EXCEPT !.communityCards = <<>>,
                              !.deck = deck,
                              !.players = [ i \in Seats(gs) |->
                                              [gs.players[i] EXCEPT !.hand = <<>>] ]]
    IN dealHoleCardsFromDeck(cleared, deck)

\* a dealCommunityCards that takes a count of 1 for a street whatever the board
dealCommunityCardsOnAnyBoard(gs, count) ==
    LET street == IF count = 3 /\ Len(gs.communityCards) = 0 THEN dealFLOP(gs.deck)
                  ELSE IF count = 1 THEN dealTURN(gs.deck)
                  ELSE [ threw |-> FALSE, dealt |-> <<>>, cards |-> gs.deck ]
    IN IF street.threw THEN gs
       ELSE [gs EXCEPT !.communityCards = @ \o street.dealt, !.deck = street.cards]

\* PokerGame.dealCommunityCards on the deck kept in the GameState; when the deck
\* throws, neither the board nor gameState.deck has been assigned
dealCommunityCardsFromDeck(gs, count) ==
    LET street == IF count = 3 /\ Len(gs.communityCards) = 0 THEN dealFLOP(gs.deck)
                  ELSE IF count = 1 /\ Len(gs.communityCards) = 3 THEN dealTURN(gs.deck)
                  ELSE IF count = 1 /\ Len(gs.communityCards) = 4 THEN dealRIVER(gs.deck)
                  ELSE [ threw |-> FALSE, dealt |-> <<>>, cards |-> gs.deck ]
    IN IF street.threw THEN gs
       ELSE [gs EXCEPT !.communityCards = @ \o street.dealt, !.deck = street.cards]

\* a table of n seats, the seats of out eliminated, with the deck of construction
cardTable(n, out, deck) ==
    [ players |-> [ i \in 0..(n - 1) |->
                      [ hand |-> <<>>,
                        chips |-> IF i \in out THEN 0 ELSE initialChips,
                        totalBet |-> 0,
                        role |-> IF i \in out THEN VIEWER ELSE NO_ROLE ] ],
      deck |-> deck,
      communityCards |-> <<>> ]

InitDeck ==
    /\ \E n \in MIN_PLAYERS..MaxSeats, x \in 0..(RngSteps - 1) :
          \E out \in SUBSET (0..(n - 1)) :
              /\ n - Cardinality(out) >= MIN_PLAYERS
              /\ gameState = cardTable(n, out, shuffle(ALL_CARDS, x))
    /\ handNumber = 0

StartNewHandCards ==
    /\ handNumber < MaxDeckHands
    /\ \E x \in 0..(RngSteps - 1) : gameState' = startNewHandCards(gameState, x)
    /\ handNumber' = handNumber + 1

\* the counts a caller passes: those of the streets and two others
DealCounts == 0..3

DealCommunityCards ==
    /\ \E count \in DealCounts :
          gameState' = dealCommunityCardsFromDeck(gameState, count)
    /\ UNCHANGED handNumber

NextDeck == StartNewHandCards \/ DealCommunityCards

SpecDeck == InitDeck /\ [][NextDeck]_vars

\* ------------------------------------------------------ hand evaluation
card(rank, suit) == [ rank |-> rank, suit |-> suit ]

\* GameEngine.rankToValue: 2 for "2" up to 14 for "A"
rankToValue(r) == (CHOOSE k \in 1..Len(Ranks) : Ranks[k] = r) + 1

\* Array.sort((a, b) => b - a) on numbers: descending, duplicates kept
RECURSIVE sortDescending(_)
sortDescending(values) ==
    IF values = <<>> THEN <<>>
    ELSE LET k == CHOOSE i \in 1..Len(values) : \A j \in 1..Len(values) : values[j] <= values[i]
         IN <<values[k]>>
            \o sortDescending([ i \in 1..(Len(values) - 1) |->
                                  IF i < k THEN values[i] ELSE values[i + 1] ])

\* a checkSTRAIGHT that gives the wheel the ace as its high card
checkSTRAIGHTAceHighWheel(ranks) ==
    LET u == sortDescending(SeatOrder(SeqToSet(ranks)))
        runs == { i \in 1..Len(u) : i + 4 <= Len(u) /\ u[i] - u[i + 4] = 4 }
    IN IF runs # {}
       THEN [ isSTRAIGHT |-> TRUE, HIGHCARD |-> u[FirstOf(runs)] ]
       ELSE IF {14, 5, 4, 3, 2} \subseteq SeqToSet(u)
       THEN [ isSTRAIGHT |-> TRUE, HIGHCARD |-> u[1] ]
       ELSE [ isSTRAIGHT |-> FALSE, HIGHCARD |-> 0 ]

\* GameEngine.checkSTRAIGHT: five unique values in a row, or the wheel
\* 14, 5, 4, 3, 2 with its high card 5
checkSTRAIGHT(ranks) ==
    LET u == sortDescending(SeatOrder(SeqToSet(ranks)))
        runs == { i \in 1..Len(u) : i + 4 <= Len(u) /\ u[i] - u[i + 4] = 4 }
    IN IF runs # {}
       THEN [ isSTRAIGHT |-> TRUE, HIGHCARD |-> u[FirstOf(runs)] ]
       ELSE IF {14, 5, 4, 3, 2} \subseteq SeqToSet(u)
       THEN [ isSTRAIGHT |-> TRUE, HIGHCARD |-> 5 ]
       ELSE [ isSTRAIGHT |-> FALSE, HIGHCARD |-> 0 ]

countOf(values, v) == Cardinality({ i \in 1..Len(values) : values[i] = v })

\* the values of a hand by the number of cards of the value, then by the value,
\* both descending
RECURSIVE groupedFrom(_, _)
groupedFrom(values, left) ==
    IF left = {} THEN <<>>
    ELSE LET v == CHOOSE x \in left :
                     \A y \in left :
                         \/ countOf(values, y) < countOf(values, x)
                         \/ (countOf(values, y) = countOf(values, x) /\ y <= x)
         IN << <<v, countOf(values, v)>> >> \o groupedFrom(values, left \ {v})

\* Array.filter((v) => v !== x)
without(values, x) == SelectSeq(values, LAMBDA v : v # x)

\* Array.slice(0, n)
slice(values, n) == SubSeq(values, 1, Min(n, Len(values)))

\* GameEngine.evaluateFive: the category of five cards and its tiebreaker
evaluateFive(cards) ==
    LET isFLUSH == \A i \in 1..Len(cards) : cards[i].suit = cards[1].suit
        rankValues == sortDescending([ i \in 1..Len(cards) |-> rankToValue(cards[i].rank) ])
        straight == checkSTRAIGHT(rankValues)
        isSTRAIGHT == straight.isSTRAIGHT
        STRAIGHTHigh == straight.HIGHCARD
        grouped == groupedFrom(rankValues, SeqToSet(rankValues))
    IN IF isSTRAIGHT /\ isFLUSH
       THEN [ rank |-> IF STRAIGHTHigh = 14 THEN "ROYALFLUSH" ELSE "STRAIGHTFLUSH",
              tiebreaker |-> <<STRAIGHTHigh>> ]
       ELSE IF grouped[1][2] = 4
       THEN [ rank |-> "FOUROFKIND", tiebreaker |-> <<grouped[1][1], grouped[2][1]>> ]
       ELSE IF grouped[1][2] = 3 /\ grouped[2][2] = 2
       THEN [ rank |-> "FULLHOUSE", tiebreaker |-> <<grouped[1][1], grouped[2][1]>> ]
       ELSE IF isFLUSH
       THEN [ rank |-> "FLUSH", tiebreaker |-> rankValues ]
       ELSE IF isSTRAIGHT
       THEN [ rank |-> "STRAIGHT", tiebreaker |-> <<STRAIGHTHigh>> ]
       ELSE IF grouped[1][2] = 3
       THEN [ rank |-> "THREEOFAKIND",
              tiebreaker |-> <<grouped[1][1]>>
                             \o slice(without(rankValues, grouped[1][1]), 2) ]
       ELSE IF grouped[1][2] = 2 /\ grouped[2][2] = 2
       THEN LET highPair == Max(grouped[1][1], grouped[2][1])
                lowPair == Min(grouped[1][1], grouped[2][1])
                kicker == Head(without(without(rankValues, highPair), lowPair))
            IN [ rank |-> "TWOPAIR", tiebreaker |-> <<highPair, lowPair, kicker>> ]
       ELSE IF grouped[1][2] = 2
       THEN [ rank |-> "ONEPAIR",
              tiebreaker |-> <<grouped[1][1]>>
                             \o slice(without(rankValues, grouped[1][1]), 3) ]
       ELSE [ rank |-> "HIGHCARD", tiebreaker |-> rankValues ]

hierarchy ==
    <<"HIGHCARD", "ONEPAIR", "TWOPAIR", "THREEOFAKIND", "STRAIGHT", "FLUSH",
      "FULLHOUSE", "FOUROFKIND", "STRAIGHTFLUSH", "ROYALFLUSH">>

\* Array.indexOf on the hierarchy
indexOf(rank) == (CHOOSE k \in 1..Len(hierarchy) : hierarchy[k] = rank) - 1

\* a compareHands that looks at the first tiebreaker element only
compareHandsByFirstTiebreaker(a, b) ==
    LET diff == indexOf(a.rank) - indexOf(b.rank)
    IN IF diff # 0 THEN diff
       ELSE IF a.tiebreaker = <<>> THEN 0
       ELSE a.tiebreaker[1] - b.tiebreaker[1]

\* the first index of a.tiebreaker at which b.tiebreaker has another element
\* or none, 0 when there is no such index
firstDifference(a, b) ==
    LET differing == { i \in 1..Len(a.tiebreaker) :
                         i > Len(b.tiebreaker) \/ a.tiebreaker[i] # b.tiebreaker[i] }
    IN IF differing = {} THEN 0 ELSE FirstOf(differing)

\* compareHands subtracts undefined and returns NaN: same category, and
\* b.tiebreaker ends before the first difference
comparesToNaN(a, b) ==
    /\ a.rank = b.rank
    /\ firstDifference(a, b) > Len(b.tiebreaker)

\* GameEngine.compareHands: the difference of the categories, else of the first
\* tiebreaker elements that differ, over the indices of a.tiebreaker
compareHands(a, b) ==
    LET diff == indexOf(a.rank) - indexOf(b.rank)
        first == firstDifference(a, b)
    IN IF diff # 0 THEN diff
       ELSE IF first = 0 THEN 0
       ELSE a.tiebreaker[first] - b.tiebreaker[first]

\* The hands evaluated: every five cards out of the royal flush in spades, the
\* ace to six of hearts, a second six and the two other aces; they make every
\* category, the wheel and the six-high straight, suited and not.
EvalCards ==
    { card(r, "SPADES") : r \in {"10", "J", "Q", "K", "A"} }
    \cup { card(r, "HEARTS") : r \in {"A", "2", "3", "4", "5", "6"} }
    \cup { card("6", "DIAMONDS"), card("A", "DIAMONDS"), card("A", "CLUBS") }

cardIndex(c) == CHOOSE k \in 1..Len(ALL_CARDS) : ALL_CARDS[k] = c

\* cards in the order of ALL_CARDS
inDeckOrder(S) ==
    LET positions == SeatOrder({ cardIndex(c) : c \in S })
    IN [ k \in 1..Len(positions) |-> ALL_CARDS[positions[k]] ]

FiveCardHands == { inDeckOrder(S) : S \in { T \in SUBSET EvalCards : Cardinality(T) = 5 } }

NotEvaluated == [ rank |-> "", tiebreaker |-> <<>> ]

InitEval ==
    /\ \E cards \in FiveCardHands :
          gameState = [ cards |-> cards, evaluation |-> NotEvaluated ]
    /\ handNumber = 0

EvaluateFive ==
    /\ gameState.evaluation = NotEvaluated
    /\ gameState' = [gameState EXCEPT !.evaluation = evaluateFive(gameState.cards)]
    /\ UNCHANGED handNumber

NextEval == EvaluateFive

SpecEval == InitEval /\ [][NextEval]_vars

\* -------------------------------------------------- PokerGame.constructor
\* largest number of player names a game is constructed with
MaxNames == 11

PlayerNames == {"Alice", "Bob"}

NoGame == [ players |-> <<>> ]

\* new PokerGame(playerNames): throws INVALID_PLAYER_COUNT outside
\* MIN_PLAYERS..MAX_PLAYERS, else the game state of initializeGame
constructor(playerNames) ==
    IF Len(playerNames) < MIN_PLAYERS \/ Len(playerNames) > MAX_PLAYERS
    THEN [ threw |-> "INVALID_PLAYER_COUNT", gs |-> NoGame ]
    ELSE [ threw |-> "", gs |-> initializeGame(Len(playerNames)) ]

InitConstruct ==
    /\ \E n \in 0..MaxNames : \E playerNames \in [1..n -> PlayerNames] :
          gameState = [ playerNames |-> playerNames, constructed |-> FALSE,
                        threw |-> "", game |-> NoGame ]
    /\ handNumber = 0

Construct ==
    /\ ~gameState.constructed
    /\ LET r == constructor(gameState.playerNames)
       IN gameState' = [gameState EXCEPT !.constructed = TRUE, !.threw = r.threw, !.game = r.gs]
    /\ UNCHANGED handNumber

NextConstruct == Construct

SpecConstruct == InitConstruct /\ [][NextConstruct]_vars

\* ------------------------------------------------------ GameStateManager
\* timers of one kind pending at a time
MaxTimers == 1

\* a room: its game, the card-reveal timers (5 s) and the next-hand timers (2 s)
\* that handleAction and the card-reveal timer have set and that have not fired
room(game, revealTimers, newHandTimers) ==
    [ game |-> game, revealTimers |-> revealTimers, newHandTimers |-> newHandTimers ]

declareTournamentWinner(gs) ==
    [gs EXCEPT !.tournamentWinner = getTournamentWinner(gs), !.gameEnded = TRUE]

\* after a payout (paid: what distributePot returned): a throw is swallowed;
\* with a tournament winner the game ends, else the next hand is scheduled
afterPayout(r, paid, timers) ==
    IF paid.threw THEN room(paid.gs, timers, r.newHandTimers)
    ELSE IF hasTournamentWinner(paid.gs)
    THEN room(declareTournamentWinner(paid.gs), timers, r.newHandTimers)
    ELSE room(paid.gs, timers, r.newHandTimers + 1)

\* the SHOWDOWN branch of handleAction: the pot is distributed if there is one
afterShowdown(r, gs, ev) ==
    afterPayout(r,
                IF gs.pot > 0 THEN distributePot(gs, ev)
                ELSE [ gs |-> gs, distributions |-> <<>>, threw |-> FALSE ],
                r.revealTimers)

\* after the advance and the deal: the card-reveal timer is set at CARD_REVEAL,
\* the pot is paid out at SHOWDOWN
afterDeal(r, dealt, ev) ==
    IF dealt.round = "CARD_REVEAL" THEN room(dealt, r.revealTimers + 1, r.newHandTimers)
    ELSE IF dealt.round = "SHOWDOWN" THEN afterShowdown(r, dealt, ev)
    ELSE room(dealt, r.revealTimers, r.newHandTimers)

\* after advanceToNextRound (advanced: what it returned): a throw is swallowed,
\* else the cards of the round reached are dealt
afterAdvance(r, beforeRound, advanced, ev) ==
    IF advanced.threw # "" THEN room(advanced.gs, r.revealTimers, r.newHandTimers)
    ELSE afterDeal(r, dealCommunityCards(advanced.gs,
                                         dealCount(beforeRound, advanced.gs.round)), ev)

\* after processAction (result: what it returned): nothing more on a failure;
\* the turn moves on while the betting round is not complete; else the server
\* advances the round
afterProcessAction(r, result, ev) ==
    IF ~result.success THEN room(result.gs, r.revealTimers, r.newHandTimers)
    ELSE IF ~gameIsBettingRoundComplete(result.gs)
    THEN room([result.gs EXCEPT !.currentPlayerIndex = getNextActivePlayerIndex(result.gs)],
              r.revealTimers, r.newHandTimers)
    ELSE afterAdvance(r, result.gs.round, advanceToNextRound(result.gs), ev)

\* GameStateManager.handleAction: processAction, and after a success the
\* server-side flow: advance and deal when the betting round is complete, set
\* the card-reveal timer at CARD_REVEAL, pay out and set the next-hand timer at
\* SHOWDOWN, else move the turn; a throw of the flow is swallowed
handleAction(r, action, ev) == afterProcessAction(r, processAction(r.game, action), ev)

\* the card-reveal timer: advanceToShowdownWithWinners, then the game ends with
\* a tournament winner or the next hand is scheduled
revealTimer(r, ev) ==
    afterPayout(r, advanceToShowdownWithWinners(r.game, ev), r.revealTimers - 1)

\* the room after a call, while the timers pending stay within MaxTimers
roomBecomes(after) ==
    /\ after.revealTimers <= MaxTimers
    /\ after.newHandTimers <= MaxTimers
    /\ gameState' = after

InitManager ==
    /\ gameState = room(NoGame, 0, 0)
    /\ handNumber = 0

\* GameStateManager.createGame: new PokerGame, then startNewHand
CreateGame ==
    /\ handNumber = 0
    /\ \E n \in MIN_PLAYERS..MaxSeats :
          gameState' = room(startNewHand(initializeGame(n)).gs, 0, 0)
    /\ handNumber' = 1

\* the actions submitted in a room, by any seat in any order
RoomActions(gs) ==
    [ playerId : Seats(gs), type : {"fold", "check", "call", "all-in"}, amount : {0} ]

\* the hands of a showdown matter to a call that reaches SHOWDOWN
reachesShowdown(result) ==
    /\ result.success
    /\ gameIsBettingRoundComplete(result.gs)
    /\ advanceToNextRound(result.gs).gs.round = "SHOWDOWN"

paysOut(r, action) == reachesShowdown(processAction(r.game, action))

HandleAction ==
    /\ handNumber > 0
    /\ \E action \in RoomActions(gameState.game) :
       \E ev \in IF paysOut(gameState, action) THEN Evaluations(gameState.game)
                  ELSE {[ i \in Seats(gameState.game) |-> 1 ]} :
          roomBecomes(handleAction(gameState, action, ev))
    /\ UNCHANGED handNumber

RevealTimer ==
    /\ gameState.revealTimers > 0
    /\ \E ev \in Evaluations(gameState.game) : roomBecomes(revealTimer(gameState, ev))
    /\ UNCHANGED handNumber

\* the next-hand timer: startNewHand unless there is a tournament winner
NewHandTimer ==
    /\ gameState.newHandTimers > 0
    /\ (handNumber + 1) * NumPlayers(gameState.game) <= MaxDealt
    /\ LET started == startNewHand(gameState.game)
       IN IF hasTournamentWinner(gameState.game)
          THEN /\ gameState' = [gameState EXCEPT !.newHandTimers = @ - 1]
               /\ UNCHANGED handNumber
          ELSE /\ gameState' = room(started.gs, gameState.revealTimers,
                                    gameState.newHandTimers - 1)
               /\ handNumber' = handNumber + 1

NextManager ==
    \/ CreateGame
    \/ HandleAction
    \/ RevealTimer
    \/ NewHandTimer

SpecManager == InitManager /\ [][NextManager]_vars

\* ------------------------------------------------- rooms played in turn
\* The room when every request comes from the player at currentPlayerIndex, in
\* a betting street, and is legal (validatePlayerAction accepts it), and the
\* timers fire.
LegalActions(gs) ==
    { action \in RoomActions(gs) :
        /\ gs.round \in {"PREFLOP", "FLOP", "TURN", "RIVER"}
        /\ action.playerId = gs.currentPlayerIndex
        /\ validatePlayerAction(gs, action) }

\* the rooms a legal request of the current player can leave
roomsAfterActionInTurn(r) ==
    { after \in UNION { { handleAction(r, action, ev) :
                             ev \in IF paysOut(r, action) THEN Evaluations(r.game)
                                    ELSE {[ i \in Seats(r.game) |-> 1 ]} } :
                         action \in LegalActions(r.game) } :
        after.revealTimers <= MaxTimers /\ after.newHandTimers <= MaxTimers }

HandleActionInTurn ==
    /\ handNumber > 0
    /\ gameState' \in roomsAfterActionInTurn(gameState)
    /\ UNCHANGED handNumber

\* the rooms the card-reveal timer can leave
roomsAfterReveal(r) ==
    { after \in { revealTimer(r, ev) : ev \in Evaluations(r.game) } :
        after.newHandTimers <= MaxTimers }

RevealTimerInTurn ==
    /\ gameState.revealTimers > 0
    /\ gameState' \in roomsAfterReveal(gameState)
    /\ UNCHANGED handNumber

\* the next-hand timer, the game followed past an elimination within MaxPairs
NewHandTimerAtTable ==
    /\ gameState.newHandTimers > 0
    /\ handNumber * NumPlayers(gameState.game)
          + Cardinality(seatsToDeal(gameState.game)) <= MaxPairs
    /\ IF hasTournamentWinner(gameState.game)
       THEN /\ gameState' = [gameState EXCEPT !.newHandTimers = @ - 1]
            /\ UNCHANGED handNumber
       ELSE /\ gameState' = room(startNewHand(gameState.game).gs, gameState.revealTimers,
                                 gameState.newHandTimers - 1)
            /\ handNumber' = handNumber + 1

NextInTurn ==
    \/ CreateGame
    \/ HandleActionInTurn
    \/ RevealTimerInTurn
    \/ NewHandTimerAtTable

\* a step of the current player, or of the card-reveal timer, is possible
enabledActionInTurn ==
    handNumber > 0 /\ roomsAfterActionInTurn(gameState) \ {gameState} # {}

enabledRevealInTurn ==
    gameState.revealTimers > 0 /\ roomsAfterReveal(gameState) \ {gameState} # {}

\* The current player eventually submits a legal action and a timer that is set
\* eventually fires: weak fairness of HandleActionInTurn and of
\* RevealTimerInTurn, with the enabling conditions as state predicates.
FairInTurn ==
    /\ []<>~enabledActionInTurn \/ []<><<HandleActionInTurn>>_vars
    /\ []<>~enabledRevealInTurn \/ []<><<RevealTimerInTurn>>_vars

SpecInTurn == InitManager /\ [][NextInTurn]_vars /\ FairInTurn

\* ---------------------------------------------- MonteCarloSimulation cache
\* distinct cache keys the calls can use
MaxKeys == 102

\* calls that miss the cache and insert
MaxInserts == 104

\* largest number of opponents of a call that is meant to succeed
MaxOpponents == 3

\* this.cache.size > 100
cacheCapacity == 100

\* `${c.rank}${c.suit}` of every card, sorted and joined: as the sorted
\* positions of the cards in ALL_CARDS, duplicates kept
cardsKey(cards) == sortDescending([ i \in 1..Len(cards) |-> cardIndex(cards[i]) ])

\* MonteCarloSimulation.createCacheKey
createCacheKey(playerCards, communityCards, numOpponents) ==
    <<cardsKey(playerCards), cardsKey(communityCards), numOpponents>>

\* Map.get: the entries with the key (none or one)
cacheGet(cache, key) == { i \in 1..Len(cache) : cache[i].key = key }

\* a cache.set that never removes an entry
cacheSetUnbounded(cache, key, result, stamp) ==
    Append(cache, [ key |-> key, result |-> result, insertedAt |-> stamp ])

\* this.cache.set(cacheKey, result), then the first key of the Map is deleted
\* when the size is over 100. A Map iterates in insertion order and the key is
\* new here, so the entry goes to the end. insertedAt records the number of the
\* insertion and is read by no operation.
cacheSet(cache, key, result, stamp) ==
    LET added == Append(cache, [ key |-> key, result |-> result, insertedAt |-> stamp ])
    IN IF Len(added) > cacheCapacity THEN Tail(added) ELSE added

\* MonteCarloSimulation.runSimulationSync, first of the SIMULATION_COUNT
\* trials (runSingleSimulation): the board is completed and two cards are dealt
\* to each opponent from the cards not in use; evaluateBestHand throws on a
\* duplicate among the player's seven cards; a card dealt past the end of the
\* available cards is undefined and evaluateBestHand fails reading its rank;
\* with no opponent the best opponent hand is undefined and compareHands fails
\* reading its rank
runSimulationSync(playerCards, communityCards, numOpponents) ==
    LET usedCards == SeqToSet(playerCards) \cup SeqToSet(communityCards)
        availableCards == Len(ALL_CARDS) - Cardinality(usedCards)
        needed == (5 - Len(communityCards)) + (IF numOpponents > 0 THEN 2 * numOpponents ELSE 0)
    IN IF Cardinality(usedCards) < Len(playerCards) + Len(communityCards)
       THEN "DUPLICATE_CARD"
       ELSE IF needed > availableCards THEN "TypeError"
       ELSE IF numOpponents < 1 THEN "TypeError"
       ELSE "PredictionResult"

\* MonteCarloSimulation.runSimulation: what the call does (outcome), whether
\* it returned a cached result, and the cache after it
runSimulation(cache, stamp, playerCards, communityCards, numOpponents) ==
    LET cacheKey == createCacheKey(playerCards, communityCards, numOpponents)
        cached == cacheGet(cache, cacheKey)
        result == runSimulationSync(playerCards, communityCards, numOpponents)
    IN IF Len(playerCards) # 2
       THEN [ outcome |-> "PLAYER_EXACTLY_TWO_CARDS", hit |-> FALSE, cache |-> cache ]
       ELSE IF Len(communityCards) < 3 \/ Len(communityCards) > 5
       THEN [ outcome |-> "COMMUNITY_CARDS_3_TO_5", hit |-> FALSE, cache |-> cache ]
       ELSE IF cached # {}
       THEN [ outcome |-> cache[FirstOf(cached)].result, hit |-> TRUE, cache |-> cache ]
       ELSE IF result # "PredictionResult"
       THEN [ outcome |-> result, hit |-> FALSE, cache |-> cache ]
       ELSE [ outcome |-> result, hit |-> FALSE,
              cache |-> cacheSet(cache, cacheKey, result, stamp) ]

\* the inputs of the calls: Scenario E's aces on 2, 7, 9, ...
holeCards == <<card("A", "SPADES"), card("A", "HEARTS")>>

flopCards == <<card("2", "CLUBS"), card("7", "DIAMONDS"), card("9", "HEARTS")>>

spareCards == SelectSeq(ALL_CARDS, LAMBDA c : c \notin SeqToSet(holeCards) \cup SeqToSet(flopCards))

simulationCall(playerCards, communityCards, numOpponents) ==
    [ playerCards |-> playerCards, communityCards |-> communityCards,
      numOpponents |-> numOpponents ]

\* ... the n-th of MaxKeys inputs with distinct keys: 1 to MaxOpponents
\* opponents, on the flop or on the flop and one of the spare cards as turn
keyedCall(n) ==
    LET turn == (n - 1) \div MaxOpponents
    IN simulationCall(holeCards,
                      IF turn = 0 THEN flopCards ELSE Append(flopCards, spareCards[turn]),
                      ((n - 1) % MaxOpponents) + 1)

keyOf(call) == createCacheKey(call.playerCards, call.communityCards, call.numOpponents)

\* the keys of the keyed inputs
keyedKeys == [ n \in 1..MaxKeys |-> keyOf(keyedCall(n)) ]

keyedCalls == [ n \in 1..MaxKeys |-> keyedCall(n) ]

\* ... and inputs that do not have the shape the call asks for
oddCalls ==
    { simulationCall(SubSeq(holeCards, 1, 1), flopCards, 1),
      simulationCall(Append(holeCards, spareCards[1]), flopCards, 1),
      simulationCall(holeCards, SubSeq(flopCards, 1, 2), 1),
      simulationCall(holeCards, flopCards \o SubSeq(spareCards, 1, 3), 1),
      simulationCall(holeCards, flopCards, 0),
      simulationCall(holeCards, flopCards, 0 - 1),
      simulationCall(holeCards, flopCards, 23),
      simulationCall(holeCards, flopCards \o SubSeq(spareCards, 1, 2), 0),
      simulationCall(<<holeCards[1], holeCards[1]>>, flopCards, 1) }

noCall == simulationCall(<<>>, <<>>, 0)

InitSim ==
    /\ gameState = [ cache |-> <<>>, used |-> 0, inserts |-> 0,
                     call |-> noCall, outcome |-> "", hit |-> FALSE ]
    /\ handNumber = 0

\* the keyed inputs a call is made with: the next one not used so far, the
\* ones of the oldest and of the newest entry of the cache, and every one used
\* before that is not in the cache any more; the hole cards in either order
callsNow(gs) ==
    LET cachedKeys == { gs.cache[i].key : i \in 1..Len(gs.cache) }
        fresh == IF gs.used < MaxKeys THEN {gs.used + 1} ELSE {}
        ends == { n \in 1..gs.used :
                    /\ gs.cache # <<>>
                    /\ keyedKeys[n] \in {gs.cache[1].key, gs.cache[Len(gs.cache)].key} }
        evicted == { n \in 1..gs.used : keyedKeys[n] \notin cachedKeys }
        keyed == { keyedCalls[n] : n \in fresh \cup ends \cup evicted }
    IN keyed
       \cup { [c EXCEPT !.playerCards = <<c.playerCards[2], c.playerCards[1]>>] : c \in keyed }
       \cup oddCalls

RunSimulation ==
    \E call \in callsNow(gameState) :
        LET r == runSimulation(gameState.cache, gameState.inserts + 1,
                               call.playerCards, call.communityCards, call.numOpponents)
            inserted == r.cache # gameState.cache
        IN /\ inserted => gameState.inserts < MaxInserts
           /\ gameState' =
                 [ cache |-> r.cache,
                   used |-> IF call \in oddCalls THEN gameState.used
                            ELSE IF gameState.used < MaxKeys
                                    /\ keyedKeys[gameState.used + 1] = keyOf(call)
                            THEN gameState.used + 1
                            ELSE gameState.used,
                   inserts |-> IF inserted THEN gameState.inserts + 1 ELSE gameState.inserts,
                   call |-> call, outcome |-> r.outcome, hit |-> r.hit ]
           /\ UNCHANGED handNumber

NextSim == RunSimulation

SpecSim == InitSim /\ [][NextSim]_vars

\* ------------------------------------------------- positions at larger tables
\* the seats of the tables whose positions are followed over an elimination
MaxTableSeats == 5

\* A table between two hands: the seats in out were eliminated in earlier hands,
\* the positions of the hand just played were assigned by rotateDealerButton
\* (the button was in seat button before), and the seats in broke lost their
\* chips in the hand just played, to the first seat that still has chips.
tableBetweenHands(n, out, button, broke) ==
    LET base == initializeGame(n)
        seated == [base EXCEPT !.players =
                     [ i \in 0..(n - 1) |->
                         [base.players[i] EXCEPT
                             !.role = IF i \in out THEN VIEWER
                                      ELSE IF i = button THEN DEALER ELSE NO_ROLE,
                             !.isFolded = i \in out] ]]
        played == rotateDealerButton(seated)
        winner == FirstOf((0..(n - 1)) \ (out \cup broke))
    IN [played EXCEPT !.players =
            [ i \in 0..(n - 1) |->
                [played.players[i] EXCEPT
                    !.chips = IF i \in out \cup broke THEN 0
                              ELSE IF i = winner
                              THEN initialChips * (1 + Cardinality(out \cup broke))
                              ELSE initialChips] ],
                       !.round = "SHOWDOWN"]

InitRotation ==
    /\ \E n \in 3..MaxTableSeats :
          \E out \in SUBSET (0..(n - 1)), broke \in SUBSET (0..(n - 1)) :
             \E button \in (0..(n - 1)) \ out :
                /\ out \cap broke = {}
                /\ Cardinality((0..(n - 1)) \ out) >= 2
                /\ (0..(n - 1)) \ (out \cup broke) # {}
                /\ gameState = tableBetweenHands(n, out, button, broke)
    /\ handNumber = 1

\* the next hand of the table is started
StartHandAfterElimination ==
    /\ handNumber = 1
    /\ gameState' = startNewHand(gameState).gs
    /\ handNumber' = 2

NextRotation == StartHandAfterElimination

SpecRotation == InitRotation /\ [][NextRotation]_vars

\* ------------------------------------------------------------ properties
totalChips(gs) == SumOver([ i \in Seats(gs) |-> gs.players[i].chips ], Seats(gs))

totalCurrentBets(gs) ==
    SumOver([ i \in Seats(gs) |-> gs.players[i].currentBet ], Seats(gs))

\* C1 as stated: within a hand no processAction and no advanceToNextRound changes
\* pot + sum of chips + sum of currentBet, so the quantity keeps the value it had
\* right after startNewHand.
C1_ChipsPotAndBetsConserved ==
    inPlay(gameState) =>
        LET q(gs) == gs.pot + totalChips(gs) + totalCurrentBets(gs)
        IN /\ \A action \in Actions(gameState) :
                q(processAction(gameState, action).gs) = q(gameState)
           /\ q(advanceToNextRound(gameState).gs) = q(gameState)

\* C1 amended: within a hand no processAction and no advanceToNextRound changes
\* pot + sum of chips (a bet is added to the pot when it is made, and currentBet
\* only repeats the part of it made on the current street).
C1_ChipsAndPotConserved ==
    inPlay(gameState) =>
        LET q(gs) == gs.pot + totalChips(gs)
        IN /\ \A action \in Actions(gameState) :
                q(processAction(gameState, action).gs) = q(gameState)
           /\ q(advanceToNextRound(gameState).gs) = q(gameState)

\* a hand on the flop, after calls before the flop and a bet on it, with every
\* chip of the game in the stacks or in the pot
C1_Witness ==
    /\ handNumber = 1
    /\ gameState.round = "FLOP"
    /\ gameState.pot > NumPlayers(gameState) * initialBigBlind
    /\ totalCurrentBets(gameState) > 0
    /\ gameState.pot + totalChips(gameState) = NumPlayers(gameState) * initialChips

\* C2 as stated: in every state with pot > 0 the amounts of createAllPots() sum
\* to gameState.pot.
C2_PotsSumToPot ==
    gameState.pot > 0 => potsTotal(createAllPots(gameState)) = gameState.pot
\* C3: distributeAllPots raises the chips of the players by exactly the sum of
\* the amounts of the pots it is given (each pot is paid out in full), and the
\* amounts paid to the winners of one pot differ by at most 1.
C3_PotsPaidExactly ==
    \A ev \in Evaluations(gameState) :
        LET pots == createAllPots(gameState)
            result == distributeAllPots(gameState, pots, ev)
            paid(k) == { d \in SeqToSet(result.distributions) : d.potId = k - 1 }
        IN ~result.threw =>
              /\ totalChips(result.gs) = totalChips(gameState) + potsTotal(pots)
              /\ result.totalDistributed = potsTotal(pots)
              /\ \A k \in 1..Len(pots) :
                    /\ SumSeq([ j \in 1..Len(result.distributions) |->
                                  IF result.distributions[j].potId = k - 1
                                  THEN result.distributions[j].amount ELSE 0 ])
                         = pots[k].amount
                    /\ \A d1, d2 \in paid(k) :
                          d1.amount - d2.amount \in {-1, 0, 1}

\* a showdown with a side pot in which one pot is split with a chip left over
C3_Witness ==
    \E ev \in Evaluations(gameState) :
        LET pots == createAllPots(gameState)
            result == distributeAllPots(gameState, pots, ev)
        IN /\ Len(pots) >= 2
           /\ ~result.threw
           /\ \E d1, d2 \in SeqToSet(result.distributions) :
                 d1.potId = d2.potId /\ d1.amount = d2.amount + 1
\* a bet that raises the highest bet: a raise, or an all-in above it
raisesTheBet(gs, action) ==
    \/ action.type = "raise"
    \/ /\ action.type = "all-in"
       /\ gs.players[action.playerId].currentBet + gs.players[action.playerId].chips
            > getHighestCurrentBet(gs)

\* the other seats that can still bet: not folded, not all-in
othersAbleToBet(gs, i) ==
    { q \in Seats(gs) \ {i} : ~gs.players[q].isFolded /\ ~gs.players[q].isAllIn }

\* C4: after a processed raise, and after a processed all-in above the highest
\* bet, every other player who is neither folded nor all-in has hasActed = false,
\* and while such a player is in the hand the betting round is not complete and
\* advanceToNextRound fails with BettingNotComplete.
C4_RaiseReopensAction ==
    \A action \in Actions(gameState) :
        LET result == processAction(gameState, action)
            others == othersAbleToBet(result.gs, action.playerId)
        IN (result.outcome = "applied" /\ raisesTheBet(gameState, action)) =>
              /\ \A q \in others : ~result.gs.players[q].hasActed
              /\ (\E q \in others : ~isViewer(result.gs.players[q])) =>
                    /\ ~gameIsBettingRoundComplete(result.gs)
                    /\ advanceToNextRound(result.gs).threw = "BettingNotComplete"

\* a raise over a player who had already acted, and who has to act again
C4_Witness ==
    \E action \in Actions(gameState) :
        LET result == processAction(gameState, action)
        IN /\ result.outcome = "applied"
           /\ action.type = "raise"
           /\ \E q \in othersAbleToBet(result.gs, action.playerId) :
                 gameState.players[q].hasActed /\ ~result.gs.players[q].hasActed

wonByFold(gs) ==
    /\ Cardinality(getActivePlayers(gs)) = 1
    /\ gs.round = "SHOWDOWN"
    /\ gs.winners = SeatOrder(getActivePlayers(gs))

\* C6: a fold that leaves exactly one active player sets round = SHOWDOWN and
\* winners = [that player] in the same call; from then on in that hand there is
\* one active player, and every processAction returns the win result (success,
\* the winner) and applies nothing; advanceToNextRound and distributePot keep the
\* hand won by that player.
C6_FoldLeavingOneWins ==
    /\ \A action \in Actions(gameState) :
          LET result == processAction(gameState, action)
          IN (/\ action.type = "fold"
              /\ result.outcome = "applied"
              /\ Cardinality(getActivePlayers(result.gs)) = 1) => wonByFold(result.gs)
    /\ (handNumber > 0 /\ Cardinality(getActivePlayers(gameState)) = 1) =>
          /\ wonByFold(gameState)
          /\ \A action \in Actions(gameState) :
                processAction(gameState, action)
                    = [ gs |-> gameState, success |-> TRUE, outcome |-> "autoWin" ]
          /\ LET advanced == advanceToNextRound(gameState).gs
             IN wonByFold(advanced) /\ advanced.winners = gameState.winners
          /\ \A ev \in Evaluations(gameState) :
                LET paid == distributePot(gameState, ev).gs
                IN wonByFold(paid) /\ paid.winners = gameState.winners

\* a fold that leaves one active player, made before the flop is dealt
C6_Witness ==
    \E action \in Actions(gameState) :
        LET result == processAction(gameState, action)
        IN /\ inPlay(gameState)
           /\ gameState.round = "PREFLOP"
           /\ action.type = "fold"
           /\ result.outcome = "applied"
           /\ Cardinality(getActivePlayers(result.gs)) = 1

\* C7: within a hand the round only moves forward along PREFLOP, FLOP, TURN,
\* RIVER, CARD_REVEAL, SHOWDOWN: to its immediate successor or straight to
\* SHOWDOWN; at SHOWDOWN it stays until startNewHand deals the next hand, which
\* starts at PREFLOP.
C7_RoundMovesForward ==
    [][ IF handNumber' # handNumber
        THEN gameState'.round = "PREFLOP"
        ELSE \/ gameState'.round = gameState.round
             \/ RoundIndex(gameState'.round) = RoundIndex(gameState.round) + 1
             \/ gameState'.round = "SHOWDOWN" ]_vars

\* a second hand that has been played through every round to its showdown
C7_Witness ==
    /\ handNumber = 2
    /\ gameState.round = "SHOWDOWN"
    /\ gameState.communityCards = 5

\* C8 as stated: advanceToNextRound fails with BettingNotComplete whenever
\* isBettingRoundComplete is false, and an advanceToNextRound that fails, for
\* whatever reason, leaves round, every currentBet, every hasActed, minBet and
\* lastRaise as they were.
C8_FailedAdvanceChangesNothing ==
    LET result == advanceToNextRound(gameState)
    IN /\ ~gameIsBettingRoundComplete(gameState) => result.threw = "BettingNotComplete"
       /\ result.threw # "" =>
             /\ result.gs.round = gameState.round
             /\ result.gs.minBet = gameState.minBet
             /\ result.gs.lastRaise = gameState.lastRaise
             /\ \A i \in Seats(gameState) :
                   /\ result.gs.players[i].currentBet = gameState.players[i].currentBet
                   /\ result.gs.players[i].hasActed = gameState.players[i].hasActed

BettingStreets == {"PREFLOP", "FLOP", "TURN", "RIVER"}

\* C9: whenever advanceToNextRound moves the round out of a betting street with
\* two or more active players, every player still able to bet (not folded, not a
\* Viewer, not all-in) has hasActed = true and a currentBet equal to the highest
\* bet.
C9_AdvanceOnlyWhenSettled ==
    LET result == advanceToNextRound(gameState)
    IN (/\ gameState.round \in BettingStreets
        /\ result.threw = ""
        /\ result.gs.round # gameState.round
        /\ Cardinality(getActivePlayers(gameState)) >= 2) =>
          \A i \in getPlayersInUIAction(gameState) :
              ~gameState.players[i].isAllIn =>
                  /\ gameState.players[i].hasActed
                  /\ gameState.players[i].currentBet = getHighestCurrentBet(gameState)

\* a street that advances after a raise has been called: two players able to bet,
\* both have acted, both at the raised bet
C9_Witness ==
    LET result == advanceToNextRound(gameState)
        able == { i \in getPlayersInUIAction(gameState) : ~gameState.players[i].isAllIn }
    IN /\ gameState.round \in BettingStreets
       /\ result.threw = ""
       /\ result.gs.round # gameState.round
       /\ Cardinality(able) >= 2
       /\ getHighestCurrentBet(gameState) > gameState.bigBlind

chipsOf(gs) == [ i \in Seats(gs) |-> gs.players[i].chips ]

RECURSIVE ascending(_)
ascending(S) ==
    IF S = {} THEN <<>>
    ELSE LET m == CHOOSE x \in S : \A y \in S : x <= y
         IN <<m>> \o ascending(S \ {m})

betLevels(gs) ==
    ascending({ gs.players[i].totalBet : i \in { j \in Seats(gs) : gs.players[j].totalBet > 0 } })

atOrAbove(gs, level) == { i \in Seats(gs) : gs.players[i].totalBet >= level }

\* C11: when no contributor has folded (and the pot holds the bets of the hand),
\* createAllPots builds one pot per distinct totalBet level, in ascending order:
\* the amount of a level's pot is (level - previous level) x (number of players
\* with totalBet at or above the level) and its eligible players are exactly the
\* players at or above the level.
C11_OnePotPerLevel ==
    LET levels == betLevels(gameState)
        pots == createAllPots(gameState)
        previous(k) == IF k = 1 THEN 0 ELSE levels[k - 1]
    IN (/\ gameState.pot > 0
        /\ gameState.pot = totalBets(gameState)
        /\ \A i \in Seats(gameState) :
              gameState.players[i].totalBet > 0 => ~gameState.players[i].isFolded) =>
          /\ Len(pots) = Len(levels)
          /\ \A k \in 1..Len(pots) :
                /\ pots[k].amount = (levels[k] - previous(k))
                                      * Cardinality(atOrAbove(gameState, levels[k]))
                /\ SeqToSet(pots[k].eligiblePlayers) = atOrAbove(gameState, levels[k])
                /\ Len(pots[k].eligiblePlayers)
                     = Cardinality(atOrAbove(gameState, levels[k]))
                /\ pots[k].maxContribution = levels[k]

\* three contributors at three different levels, nobody folded: the scenario
\* 100 / 200 / 300 in units of one chip, with pots 3, 2 and 1
C11_Witness ==
    LET pots == createAllPots(gameState)
    IN /\ NumPlayers(gameState) = 3
       /\ \A i \in Seats(gameState) : ~gameState.players[i].isFolded
       /\ { gameState.players[i].totalBet : i \in Seats(gameState) } = {1, 2, 3}
       /\ gameState.pot = 6
       /\ Len(pots) = 3
       /\ pots[1].amount = 3 /\ pots[2].amount = 2 /\ pots[3].amount = 1
\* a hand can be started: the game was just created, or the last pot is paid out
betweenHands(gs) == handNumber = 0 \/ (gs.round = "SHOWDOWN" /\ gs.pot = 0)

nonViewers(gs) == { i \in Seats(gs) : gs.players[i].role # VIEWER }

\* player i has posted the blind out of the chips held before the hand
posted(before, after, i, blind) ==
    LET amount == Min(before.players[i].chips, blind)
    IN /\ after.players[i].totalBet = amount
       /\ after.players[i].currentBet = amount
       /\ after.players[i].chips = before.players[i].chips - amount

\* C12: in every hand started with exactly two non-Viewer players (also at a
\* table of three or more seats whose other players were eliminated), after
\* startNewHand the Dealer has posted min(chips, smallBlind) and the other player
\* min(chips, bigBlind).
C12_HeadsUpDealerPostsSmallBlind ==
    LET r == startNewHand(gameState)
        two == nonViewers(r.gs)
    IN (betweenHands(gameState) /\ r.dealt /\ Cardinality(two) = 2) =>
          \E d \in two :
              /\ r.gs.players[d].role = DEALER
              /\ posted(gameState, r.gs, d, gameState.smallBlind)
              /\ \A o \in two \ {d} : posted(gameState, r.gs, o, gameState.bigBlind)
\* the players placeBlinds makes post: the SmallBlind and the BigBlind, and the
\* Dealer in place of the SmallBlind at a table of two seats
smallBlindPosters(gs) ==
    { i \in Seats(gs) : \/ gs.players[i].role = SMALL_BLIND
                        \/ (NumPlayers(gs) = 2 /\ gs.players[i].role = DEALER) }

bigBlindPosters(gs) == { i \in Seats(gs) : gs.players[i].role = BIG_BLIND }

blindOf(gs, i) == IF i \in bigBlindPosters(gs) THEN gs.bigBlind ELSE gs.smallBlind

\* C13: each blind poster pays min(chips, blind): the payment leaves the chips
\* and is added to currentBet, totalBet and pot, and the poster is marked all-in
\* exactly when the payment leaves 0 chips.
C13_BlindIsMinOfChipsAndBlind ==
    LET r == startNewHand(gameState)
        posters == smallBlindPosters(r.gs) \cup bigBlindPosters(r.gs)
        paid == [ i \in posters |-> Min(gameState.players[i].chips, blindOf(r.gs, i)) ]
    IN (betweenHands(gameState) /\ r.dealt) =>
          /\ \A i \in posters :
                /\ posted(gameState, r.gs, i, blindOf(r.gs, i))
                /\ r.gs.players[i].isAllIn <=> (r.gs.players[i].chips = 0)
          /\ r.gs.pot = SumOver(paid, posters)
          /\ \A i \in Seats(gameState) \ posters :
                /\ r.gs.players[i].totalBet = 0
                /\ r.gs.players[i].chips = gameState.players[i].chips

\* a hand has just been started in which the big blind held less than a big
\* blind: all the chips were posted and the poster is all-in
C13_Witness ==
    /\ handNumber = 2
    /\ gameState.round = "PREFLOP"
    /\ \A i \in Seats(gameState) : ~gameState.players[i].hasActed
    /\ \E i \in Seats(gameState) :
          /\ gameState.players[i].role = BIG_BLIND
          /\ gameState.players[i].totalBet > 0
          /\ gameState.players[i].totalBet < gameState.bigBlind
          /\ gameState.players[i].currentBet = gameState.players[i].totalBet
          /\ gameState.players[i].chips = 0
          /\ gameState.players[i].isAllIn
          /\ gameState.pot >= gameState.players[i].totalBet
withRole(gs, role) == { i \in nonViewers(gs) : gs.players[i].role = role }

\* C14: in every reachable state there is among the non-Viewer players at most
\* one Dealer, at most one SmallBlind and at most one BigBlind, and with exactly
\* two non-Viewer players nobody has the SmallBlind role.
C14_PositionsUnique ==
    /\ Cardinality(withRole(gameState, DEALER)) <= 1
    /\ Cardinality(withRole(gameState, SMALL_BLIND)) <= 1
    /\ Cardinality(withRole(gameState, BIG_BLIND)) <= 1
    /\ Cardinality(nonViewers(gameState)) = 2 => withRole(gameState, SMALL_BLIND) = {}

\* a hand at a table of three seats after an elimination: two non-Viewer
\* players, one the Dealer and the other the BigBlind
C14_Witness ==
    /\ NumPlayers(gameState) = 3
    /\ Cardinality(nonViewers(gameState)) = 2
    /\ handNumber = 2
    /\ Cardinality(withRole(gameState, DEALER)) = 1
    /\ Cardinality(withRole(gameState, BIG_BLIND)) = 1
viewers(gs) == { i \in Seats(gs) : gs.players[i].role = VIEWER }

\* the actions a client can submit for player i
actionsOf(gs, i) == { action \in TableActions(gs) : action.playerId = i }

\* the GameStates one call of a public method can leave from gs
afterOneCall(gs) ==
    { processAction(gs, action).gs : action \in TableActions(gs) }
    \cup { LET advanced == advanceToNextRound(gs).gs
           IN dealCommunityCards(advanced, dealCount(gs.round, advanced.round)) }
    \cup (IF betweenHands(gs) THEN { startNewHand(gs).gs } ELSE {})
    \cup (IF gs.round = "SHOWDOWN"
          THEN { distributePot(gs, ev).gs : ev \in Evaluations(gs) } ELSE {})
    \cup (IF gs.round = "CARD_REVEAL"
          THEN { advanceToShowdownWithWinners(gs, ev).gs : ev \in Evaluations(gs) }
          ELSE {})

staysViewer(gs, i) ==
    /\ gs.players[i].chips = 0
    /\ \A after \in afterOneCall(gs) :
          after.players[i].role = VIEWER /\ after.players[i].chips = 0

C16_FirstHandHeadsUp ==
    LET r == startNewHand(gameState)
        P0 == r.gs.players[0]
        P1 == r.gs.players[1]
    IN (handNumber = 0 /\ NumPlayers(gameState) = 2) =>
          /\ r.dealt
          /\ P0.role = DEALER
          /\ r.gs.pot = initialSmallBlind + initialBigBlind
          /\ P0.chips = initialChips - initialSmallBlind
          /\ P0.currentBet = initialSmallBlind
          /\ P1.chips = initialChips - initialBigBlind
          /\ P1.currentBet = initialBigBlind
          /\ P0.hand = 2 /\ P1.hand = 2
          /\ r.gs.round = "PREFLOP"
          /\ r.gs.currentPlayerIndex = 0
\* C17: after every startNewHand that deals a hand, each non-Viewer player holds
\* exactly 2 hole cards and each Viewer holds none.
C17_TwoHoleCardsEach ==
    LET r == startNewHand(gameState)
    IN (betweenHands(gameState) /\ r.dealt) =>
          \A i \in Seats(gameState) :
              r.gs.players[i].hand = IF i \in viewers(r.gs) THEN 0 ELSE 2

\* a hand has just been dealt at a table with a Viewer: the Viewer holds no
\* card, the two players hold two each, one of them all-in on the blind
C17_Witness ==
    /\ handNumber = 2
    /\ gameState.round = "PREFLOP"
    /\ \A i \in Seats(gameState) : ~gameState.players[i].hasActed
    /\ viewers(gameState) # {}
    /\ \A i \in viewers(gameState) : gameState.players[i].hand = 0
    /\ \A i \in nonViewers(gameState) : gameState.players[i].hand = 2
    /\ \E i \in nonViewers(gameState) :
          gameState.players[i].chips = 0 /\ gameState.players[i].isAllIn
\* C18: when exactly one non-Viewer player has chips > 0, startNewHand sets
\* gameEnded and tournamentWinner to that player and deals nothing: chips, hands,
\* bets, roles, pot, community cards and the hand counter are unchanged; and
\* every later startNewHand behaves the same.
C18_TournamentEndsInsteadOfDealing ==
    LET r == startNewHand(gameState)
        again == startNewHand(r.gs)
    IN Cardinality(seatsToDeal(gameState)) = 1 =>
          /\ ~r.dealt
          /\ r.gs.gameEnded
          /\ r.gs.tournamentWinner \in seatsToDeal(gameState)
          /\ r.gs = [gameState EXCEPT !.gameEnded = r.gs.gameEnded,
                                      !.tournamentWinner = r.gs.tournamentWinner]
          /\ ~again.dealt
          /\ again.gs = r.gs

\* startNewHand has been called after a hand that left one player with chips:
\* the game is ended with that player as the winner, the hand counter is still
\* that of the last hand and the loser is still seated without chips
C18_Witness ==
    /\ gameState.gameEnded
    /\ gameState.tournamentWinner \in seatsToDeal(gameState)
    /\ Cardinality(seatsToDeal(gameState)) = 1
    /\ handNumber = 1
    /\ gameState.round = "SHOWDOWN"
    /\ \E i \in nonViewers(gameState) : gameState.players[i].chips = 0
\* the cards of the GameState, in the deck, in the hands and on the board
RECURSIVE handsOf(_, _)
handsOf(gs, order) ==
    IF order = <<>> THEN <<>>
    ELSE gs.players[Head(order)].hand \o handsOf(gs, Tail(order))

cardsHeld(gs) == gs.deck \o handsOf(gs, SeatOrder(Seats(gs))) \o gs.communityCards

noDuplicates(cards) == Cardinality(SeqToSet(cards)) = Len(cards)

\* the streets dealt on a board: flop, turn, river
streetsDealt(gs) ==
    IF Len(gs.communityCards) = 0 THEN 0 ELSE Len(gs.communityCards) - 2

\* C19 as stated: after any sequence of deals within one hand (hole cards, flop,
\* turn, river) the remaining deck, all players' hands and the community cards
\* together contain each of the 52 cards exactly once: no card is duplicated and
\* no card is missing.
C19_CardsPartitionDeck ==
    handNumber >= 1 =>
        /\ noDuplicates(cardsHeld(gameState))
        /\ SeqToSet(cardsHeld(gameState)) = SeqToSet(ALL_CARDS)

\* C19, amended: after any sequence of deals within one hand the remaining deck,
\* the hands and the community cards together contain no card twice and only
\* cards of the 52; the cards missing from them are the burned ones, one for
\* each street dealt.
C19_NoDuplicateAndOnlyBurnsMissing ==
    /\ noDuplicates(cardsHeld(gameState))
    /\ SeqToSet(cardsHeld(gameState)) \subseteq SeqToSet(ALL_CARDS)
    /\ Len(cardsHeld(gameState)) = Len(ALL_CARDS) - streetsDealt(gameState)

\* a hand dealt to the river at a table of three: six hole cards, five board
\* cards, three burned cards and the rest of the 52 in the deck
C19_Witness ==
    /\ handNumber >= 1
    /\ Cardinality({ i \in Seats(gameState) : Len(gameState.players[i].hand) = 2 }) = 3
    /\ Len(gameState.communityCards) = 5
    /\ Len(gameState.deck) = Len(ALL_CARDS) - 6 - 5 - 3
BoardSizes == {0, 3, 4, 5}

\* the count is the one of the next street of the board
matchesNextStreet(gs, count) ==
    \/ count = 3 /\ Len(gs.communityCards) = 0
    \/ count = 1 /\ Len(gs.communityCards) \in {3, 4}

mismatchChangesNothing(gs) ==
    \A count \in DealCounts :
        ~matchesNextStreet(gs, count) =>
            LET after == dealCommunityCardsFromDeck(gs, count)
            IN after.communityCards = gs.communityCards /\ after.deck = gs.deck

boardGrowsByStreet(before, after) ==
    \/ Len(after) = Len(before)
    \/ <<Len(before), Len(after)>> \in {<<0, 3>>, <<3, 4>>, <<4, 5>>}

\* C20: in every reachable state the community cards number 0, 3, 4 or 5, and
\* within a hand the count only grows 0 -> 3 -> 4 -> 5; a dealCommunityCards
\* call whose count does not match the next street (3 on an empty board, 1 on a
\* board of 3 or 4 cards) leaves the board and the deck unchanged.
C20_BoardGrowsByStreets ==
    [][ /\ Len(gameState.communityCards) \in BoardSizes
        /\ Len(gameState'.communityCards) \in BoardSizes
        /\ handNumber' = handNumber =>
              boardGrowsByStreet(gameState.communityCards, gameState'.communityCards)
        /\ mismatchChangesNothing(gameState)
        /\ mismatchChangesNothing(gameState') ]_vars

\* the turn of a second hand is on the board: a call with count 3 leaves board
\* and deck as they are, a call with count 1 deals the river
C20_Witness ==
    /\ handNumber = 2
    /\ Len(gameState.communityCards) = 4
    /\ dealCommunityCardsFromDeck(gameState, 3) = gameState
    /\ Len(dealCommunityCardsFromDeck(gameState, 1).communityCards) = 5
    /\ Len(dealCommunityCardsFromDeck(gameState, 1).deck) = Len(gameState.deck) - 2
\* the players the rule of C21 is about
ableToBet(gs) ==
    { i \in Seats(gs) : /\ gs.players[i].role # VIEWER
                        /\ ~gs.players[i].isFolded
                        /\ ~gs.players[i].isAllIn
                        /\ gs.players[i].chips > 0 }

callAmountOf(gs, i) == Max(0, getHighestCurrentBet(gs) - gs.players[i].currentBet)

\* the amounts submitted with an action of player i: none, a small one, and
\* those at and next to the two limits of a raise
probeAmounts(gs, i) ==
    LET minimumRaise == getMinimumRaise(gs)
        stack == gs.players[i].chips + gs.players[i].currentBet
    IN {0, 1, minimumRaise - 1, minimumRaise, minimumRaise + 1, stack - 1, stack, stack + 1}

\* C21: for a player who is not a Viewer, not folded, not all-in and has chips
\* > 0, validatePlayerAction accepts an action exactly when: Fold or AllIn -
\* always; Check - callAmount = 0; Call - callAmount > 0; Raise - minimumRaise
\* <= amount <= chips + currentBet, where callAmount = max(0, highestBet -
\* currentBet) and minimumRaise = highestBet + lastRaise.
C21_AcceptedActions ==
    \A i \in ableToBet(gameState) :
        \A type \in ActionTypes, amount \in probeAmounts(gameState, i) :
            LET accepted == validateAction(gameState,
                                [playerId |-> i, type |-> type, amount |-> amount])
                highestBet == getHighestCurrentBet(gameState)
                callAmount == Max(0, highestBet - gameState.players[i].currentBet)
                minimumRaise == highestBet + gameState.lastRaise
            IN accepted <=>
                 CASE type \in {"fold", "all-in"} -> TRUE
                   [] type = "check" -> callAmount = 0
                   [] type = "call" -> callAmount > 0
                   [] type = "raise" ->
                        /\ minimumRaise <= amount
                        /\ amount <= gameState.players[i].chips
                                        + gameState.players[i].currentBet

\* a player facing a raise: a check and a raise one chip below the minimum
\* raise are rejected, a call and a raise of the minimum raise accepted
C21_Witness ==
    \E i \in ableToBet(gameState) :
        LET try(type, amount) ==
                validateAction(gameState, [playerId |-> i, type |-> type, amount |-> amount])
        IN /\ callAmountOf(gameState, i) > 0
           /\ gameState.lastRaise > gameState.bigBlind
           /\ ~try("check", 0)
           /\ try("call", 0)
           /\ ~try("raise", getMinimumRaise(gameState) - 1)
           /\ try("raise", getMinimumRaise(gameState))
notFolded(gs) == { i \in Seats(gs) : ~gs.players[i].isFolded }

\* C22: SHOWDOWN(players, communityCards) returns exactly the non-folded players
\* whose best hand compares equal to the maximum among the non-folded players
\* (all of them on a tie), and fails when the community cards number fewer than
\* 3 or more than 5, when no non-folded player is given, or when a contender does
\* not hold exactly 2 hole cards.
C22_ShowdownReturnsTheBest ==
    \A ev \in Evaluations(gameState) :
        LET shown == SHOWDOWN(gameState, SeatOrder(Seats(gameState)), ev)
            contenders == notFolded(gameState)
            mustFail == \/ gameState.communityCards < 3
                        \/ gameState.communityCards > 5
                        \/ contenders = {}
                        \/ \E i \in contenders : gameState.players[i].hand # 2
        IN /\ shown.threw <=> mustFail
           /\ ~shown.threw =>
                 /\ SeqToSet(shown.winners)
                      = { i \in contenders : \A j \in contenders : ev[j] <= ev[i] }
                 /\ Len(shown.winners) = Cardinality(SeqToSet(shown.winners))

\* a showdown of three players on a board of 4 cards, one of them folded without
\* cards: SHOWDOWN has returned both contenders, their hands being equal, and
\* returns one of them when the hands are unequal
C22_Witness ==
    LET all == SeatOrder(Seats(gameState))
    IN /\ NumPlayers(gameState) = 3
       /\ gameState.communityCards = 4
       /\ Cardinality(notFolded(gameState)) = 2
       /\ \E i \in Seats(gameState) :
             gameState.players[i].isFolded /\ gameState.players[i].hand = 0
       /\ SeqToSet(gameState.winners) = notFolded(gameState)
       /\ \E ev \in Evaluations(gameState) :
             Len(SHOWDOWN(gameState, all, ev).winners) = 1
\* the evaluations of the hands of SpecEval
EvaluatedHands == { evaluateFive(cards) : cards \in FiveCardHands }

sign(x) == IF x > 0 THEN 1 ELSE IF x < 0 THEN -1 ELSE 0

\* the order the claim describes: by category, then by the first tiebreaker
\* element that differs
RECURSIVE lexicographic(_, _)
lexicographic(s, t) ==
    IF s = <<>> \/ t = <<>> THEN 0
    ELSE IF Head(s) # Head(t) THEN sign(Head(s) - Head(t))
    ELSE lexicographic(Tail(s), Tail(t))

\* C23: compareHands is a total order on evaluated hands that respects the
\* category hierarchy: a hand of a higher category beats every hand of a lower
\* category whatever the tiebreakers, hands of the same category are ordered by
\* the first differing tiebreaker element, compareHands(a,b) and
\* compareHands(b,a) have opposite signs, and the result is 0 only for equal
\* category and equal tiebreakers.
C23_CompareHandsTotalOrder ==
    gameState.evaluation # NotEvaluated =>
        \A b \in EvaluatedHands :
            LET a == gameState.evaluation
                ab == compareHands(a, b)
                ba == compareHands(b, a)
            IN /\ ~comparesToNaN(a, b) /\ ~comparesToNaN(b, a)
               /\ indexOf(a.rank) > indexOf(b.rank) => ab > 0
               /\ indexOf(a.rank) < indexOf(b.rank) => ab < 0
               /\ a.rank = b.rank => sign(ab) = lexicographic(a.tiebreaker, b.tiebreaker)
               /\ sign(ab) = 0 - sign(ba)
               /\ ab = 0 <=> (a.rank = b.rank /\ a.tiebreaker = b.tiebreaker)

\* a pair of aces with kickers 6, 5, 4 is evaluated: it beats the same pair with
\* kickers 6, 5, 3 on the last tiebreaker element and loses to every two pair
C23_Witness ==
    /\ gameState.evaluation = [ rank |-> "ONEPAIR", tiebreaker |-> <<14, 6, 5, 4>> ]
    /\ [ rank |-> "ONEPAIR", tiebreaker |-> <<14, 6, 5, 3>> ] \in EvaluatedHands
    /\ compareHands(gameState.evaluation,
                    [ rank |-> "ONEPAIR", tiebreaker |-> <<14, 6, 5, 3>> ]) > 0
    /\ \E b \in EvaluatedHands :
          b.rank = "TWOPAIR" /\ compareHands(gameState.evaluation, b) < 0
ranksOf(cards) == { cards[i].rank : i \in 1..Len(cards) }

suitsOf(cards) == { cards[i].suit : i \in 1..Len(cards) }

isWheel(cards) == ranksOf(cards) = {"A", "2", "3", "4", "5"} /\ Cardinality(suitsOf(cards)) > 1

sixHighStraight == [ rank |-> "STRAIGHT", tiebreaker |-> <<6>> ]

\* C24: evaluateFive on A,2,3,4,5 not all of one suit returns STRAIGHT with
\* tiebreaker [5], and that hand compares lower than every other straight, in
\* particular the six-high straight 2,3,4,5,6.
C24_WheelIsLowestStraight ==
    (isWheel(gameState.cards) /\ gameState.evaluation # NotEvaluated) =>
        /\ gameState.evaluation = [ rank |-> "STRAIGHT", tiebreaker |-> <<5>> ]
        /\ sixHighStraight \in EvaluatedHands
        /\ compareHands(gameState.evaluation, sixHighStraight) < 0
        /\ \A b \in EvaluatedHands :
              (b.rank = "STRAIGHT" /\ b # gameState.evaluation) =>
                  /\ compareHands(gameState.evaluation, b) < 0
                  /\ compareHands(b, gameState.evaluation) > 0

\* the ace of clubs with the two to five of hearts has been evaluated, and the
\* hands compared with it include the ace-high straight
C24_Witness ==
    /\ isWheel(gameState.cards)
    /\ card("A", "CLUBS") \in SeqToSet(gameState.cards)
    /\ gameState.evaluation.rank = "STRAIGHT"
    /\ [ rank |-> "STRAIGHT", tiebreaker |-> <<14>> ] \in EvaluatedHands
validationErrors == {"PLAYER_EXACTLY_TWO_CARDS", "COMMUNITY_CARDS_3_TO_5"}

distinctCards(call) ==
    Cardinality(SeqToSet(call.playerCards) \cup SeqToSet(call.communityCards))
        = Len(call.playerCards) + Len(call.communityCards)

\* C25: runSimulation fails with a validation error exactly for inputs with a
\* number of hole cards other than 2, with fewer than 3 or more than 5
\* community cards, or with a negative numOpponents; every other input,
\* including numOpponents = 0, returns a prediction result. (Stated for calls
\* with distinct cards and at most MaxOpponents opponents.)
C25_ValidationExactlyOnBadInput ==
    LET call == gameState.call
        bad == \/ Len(call.playerCards) # 2
               \/ Len(call.communityCards) < 3
               \/ Len(call.communityCards) > 5
               \/ call.numOpponents < 0
    IN (gameState.outcome # "" /\ distinctCards(call) /\ call.numOpponents <= MaxOpponents) =>
           /\ bad <=> gameState.outcome \in validationErrors
           /\ ~bad <=> gameState.outcome = "PredictionResult"

\* C26: after any sequence of runSimulation calls the memoization cache holds
\* at most 100 entries, and when inserting a new key makes it exceed 100 the
\* entry removed is the one inserted earliest, regardless of how recently any
\* entry was returned from the cache.
C26_CacheBoundedOldestEvicted ==
    [][ LET before == SeqToSet(gameState.cache)
            after == SeqToSet(gameState'.cache)
        IN /\ Len(gameState'.cache) <= cacheCapacity
           /\ Cardinality(after) = Len(gameState'.cache)
           /\ gameState'.hit => gameState'.cache = gameState.cache
           /\ \A e \in before \ after :
                 /\ Len(gameState.cache) = cacheCapacity
                 /\ Cardinality(after \ before) = 1
                 /\ before \ after = {e}
                 /\ \A f \in before : e.insertedAt <= f.insertedAt
      ]_vars

\* the cache is full, its oldest entry has just been returned from the cache,
\* and an entry has been removed before (the oldest is not the first inserted)
C26_Witness ==
    /\ Len(gameState.cache) = cacheCapacity
    /\ gameState.hit
    /\ keyOf(gameState.call) = gameState.cache[1].key
    /\ gameState.cache[1].insertedAt > 1
    /\ gameState.inserts > cacheCapacity + 1
\* C27: constructing a PokerGame succeeds for every number of player names from
\* 2 to 10 and fails with an error for fewer than 2 or more than 10 names.
C27_TwoToTenPlayersAccepted ==
    gameState.constructed =>
        LET n == Len(gameState.playerNames)
        IN /\ (2 <= n /\ n <= 10) =>
                 (gameState.threw = "" /\ NumPlayers(gameState.game) = n)
           /\ (n < 2 \/ n > 10) => gameState.threw # ""
\* what a player can win from the contributors: from each of them at most the
\* player's own totalBet
matchedBets(gs, i) ==
    SumOver([ q \in Seats(gs) |-> Min(gs.players[q].totalBet, gs.players[i].totalBet) ],
            Seats(gs))

awarded(before, after, i) == after.players[i].chips - before.players[i].chips

\* C29: after pot distribution no player has been awarded more than the sum
\* over all contributors q of min(totalBet of q, own totalBet): a player who is
\* all-in for less never wins chips that opponents wagered above that player's
\* own contribution, also when the largest contributor has folded.
C29_AwardWithinMatchedBets ==
    (gameState.round = "SHOWDOWN" /\ inPlay(gameState) /\ gameState.pot > 0) =>
        \A ev \in Evaluations(gameState) :
            LET r == distributePot(gameState, ev)
            IN ~r.threw =>
                  \A i \in Seats(gameState) :
                      awarded(gameState, r.gs, i) <= matchedBets(gameState, i)
chipsAndPot(gs) ==
    SumOver([ i \in Seats(gs) |-> gs.players[i].chips ], Seats(gs)) + gs.pot

\* C28: in every state reachable through GameStateManager (createGame,
\* handleAction, its scheduled card-reveal and new-hand timers), the sum of all
\* players' chips plus the pot equals 1000 x the number of seats.
C28_ChipsConservedInRoom ==
    handNumber > 0 =>
        chipsAndPot(gameState.game) = initialChips * NumPlayers(gameState.game)
sameStakes(before, after) ==
    /\ after.pot = before.pot
    /\ \A i \in Seats(before) :
          /\ after.players[i].chips = before.players[i].chips
          /\ after.players[i].currentBet = before.players[i].currentBet
          /\ after.players[i].totalBet = before.players[i].totalBet
          /\ after.players[i].isFolded = before.players[i].isFolded

\* C30: once the round is CARD_REVEAL or SHOWDOWN, processAction changes no
\* player's chips, currentBet, totalBet or isFolded and does not change the pot,
\* until the next startNewHand.
C30_NoBettingAfterTheRiver ==
    (handNumber > 0 /\ gameState.game.round \in {"CARD_REVEAL", "SHOWDOWN"}) =>
        \A action \in RoomActions(gameState.game) :
            sameStakes(gameState.game, processAction(gameState.game, action).gs)
\* C31: processAction applies an action only when the acting player is the
\* player at currentPlayerIndex: while a hand is being played in a room, an
\* action submitted for any other seat is rejected and changes nothing.
C31_OnlyCurrentPlayerActs ==
    (handNumber > 0 /\ gameState.game.round \in BettingStreets) =>
        \A action \in RoomActions(gameState.game) :
            action.playerId # gameState.game.currentPlayerIndex =>
                LET result == processAction(gameState.game, action)
                IN ~result.success /\ result.gs = gameState.game

\* C32: for each hand that reaches SHOWDOWN the room starts at most one new
\* hand: a request handled while a restart is scheduled does not schedule a
\* further startNewHand, and a scheduled restart that would call startNewHand
\* is pending only while the hand is over (at SHOWDOWN), so no hand is restarted
\* while it is in progress.
C32_OneRestartPerHand ==
    (handNumber > 0 /\ gameState.newHandTimers > 0) =>
        /\ hasTournamentWinner(gameState.game) \/ gameState.game.round = "SHOWDOWN"
        /\ \A action \in RoomActions(gameState.game) :
           \A ev \in Evaluations(gameState.game) :
              handleAction(gameState, action, ev).newHandTimers <= gameState.newHandTimers

\* a betting street is open and not complete
streetOpen(gs) == gs.round \in BettingStreets /\ ~gameIsBettingRoundComplete(gs)

\* players[currentPlayerIndex] is a non-Viewer, non-folded player
canAct(gs) ==
    /\ gs.players[gs.currentPlayerIndex].role # VIEWER
    /\ ~gs.players[gs.currentPlayerIndex].isFolded

\* the first non-Viewer, non-folded seat after seat from, in seat order, wrapping
nextToAct(gs, from) ==
    LET order == seatsAfter(gs, from)
        ok == { k \in 1..Len(order) :
                    /\ ~gs.players[order[k]].isFolded
                    /\ gs.players[order[k]].role # VIEWER }
    IN IF ok = {} THEN NoPlayer ELSE order[FirstOf(ok)]

\* C33: whenever a betting street is open and not complete, after startNewHand
\* and after each handleAction (with the round advance it makes),
\* players[currentPlayerIndex] is a non-Viewer, non-folded player; after
\* startNewHand the first actor is the next such player after the big blind,
\* which with exactly two non-Viewer players is the dealer.
C33_CurrentPlayerCanAct ==
    /\ betweenHands(gameState) =>
          LET r == startNewHand(gameState)
              bigBlind == FirstOf(withRole(r.gs, BIG_BLIND))
          IN (r.dealt /\ streetOpen(r.gs)) =>
                /\ canAct(r.gs)
                /\ r.gs.currentPlayerIndex = nextToAct(r.gs, bigBlind)
                /\ Cardinality(nonViewers(r.gs)) = 2 =>
                      r.gs.players[r.gs.currentPlayerIndex].role = DEALER
    /\ (inPlay(gameState) /\ streetOpen(gameState) /\ canAct(gameState)) =>
          \A action \in TableActions(gameState) :
              LET after == handleAction(room(gameState, 0, 0), action,
                                        [ i \in Seats(gameState) |-> 1 ]).game
              IN streetOpen(after) => canAct(after)

\* C34: when advanceToNextRound moves to FLOP, TURN or RIVER (here: called by
\* handleAction once an action completes the betting round), currentPlayerIndex
\* becomes the first non-folded, non-Viewer seat after the dealer button in seat
\* order, whichever player acted last in the previous street.
C34_FirstActorAfterTheButton ==
    (handNumber > 0 /\ gameState.game.round \in BettingStreets) =>
        \A action \in RoomActions(gameState.game) :
            LET after == handleAction(gameState, action,
                                      [ i \in Seats(gameState.game) |-> 1 ]).game
                dealer == FirstOf(withRole(after, DEALER))
            IN (after.round \in {"FLOP", "TURN", "RIVER"} /\ after.round # gameState.game.round) =>
                  after.currentPlayerIndex = nextToAct(after, dealer)

\* the first k non-Viewer seats after seat from, in seat order, wrapping
nonViewersAfter(gs, from) ==
    SelectSeq(seatsAfter(gs, from), LAMBDA i : gs.players[i].role # VIEWER)

\* C35: with three or more non-Viewer players, rotateDealerButton (in the
\* startNewHand of the next hand) gives Dealer to the first non-Viewer seat
\* after the previous hand's dealer seat, in seat order, wrapping, and SmallBlind
\* and BigBlind to the next two non-Viewer seats, also when the previous dealer
\* has just been eliminated and become a Viewer.
C35_ButtonMovesToNextSeat ==
    handNumber = 1 =>
        LET r == startNewHand(gameState)
            previousDealer == FirstOf({ i \in Seats(gameState) :
                                          gameState.players[i].role = DEALER })
            order == nonViewersAfter(r.gs, previousDealer)
        IN (r.dealt /\ Cardinality(nonViewers(r.gs)) >= 3) =>
              /\ r.gs.players[order[1]].role = DEALER
              /\ r.gs.players[order[2]].role = SMALL_BLIND
              /\ r.gs.players[order[3]].role = BIG_BLIND

\* the pot of the hand has not been distributed: the hand is dealt and is in a
\* round before SHOWDOWN, or at SHOWDOWN with its pot
potNotDistributed(gs) == handNumber > 0 /\ (gs.round # "SHOWDOWN" \/ gs.pot > 0)

\* C36: from the return of startNewHand until the pot is distributed, the pot
\* equals the sum of all players' totalBet, and each player's currentBet never
\* exceeds their totalBet.
C36_PotIsSumOfTotalBets ==
    potNotDistributed(gameState) =>
        /\ gameState.pot = totalBets(gameState)
        /\ \A i \in Seats(gameState) :
              gameState.players[i].currentBet <= gameState.players[i].totalBet

\* a hand on the FLOP after a raise before it: the raiser's totalBet holds the
\* 40 of the raised street, a bet of the FLOP stands, and a blind was folded
C36_Witness ==
    /\ potNotDistributed(gameState)
    /\ gameState.round = "FLOP"
    /\ \E i \in Seats(gameState) :
          /\ gameState.players[i].currentBet > 0
          /\ gameState.players[i].totalBet = 40 + gameState.players[i].currentBet
    /\ \E i \in Seats(gameState) :
          gameState.players[i].isFolded /\ gameState.players[i].totalBet > 0

\* C37: a player who has folded in a hand stays folded until the next
\* startNewHand and is never awarded chips from that hand's pot: in every step
\* within a hand a folded player is still folded afterwards and holds no more
\* chips than before.
C37_FoldedStaysOut ==
    [][handNumber' = handNumber =>
          \A i \in Seats(gameState) :
              gameState.players[i].isFolded =>
                  /\ gameState'.players[i].isFolded
                  /\ gameState'.players[i].chips <= gameState.players[i].chips]_vars

\* both blinds have folded and the pot has been paid by the fallback split to the
\* only player left, who had put nothing in: the folded blinds got nothing back
C37_Witness ==
    /\ gameState.round = "SHOWDOWN"
    /\ gameState.pot = 0
    /\ \E w \in Seats(gameState) :
          /\ ~gameState.players[w].isFolded
          /\ gameState.players[w].totalBet = 0
          /\ gameState.players[w].chips = initialChips + initialSmallBlind + initialBigBlind
          /\ \A i \in Seats(gameState) \ {w} :
                /\ gameState.players[i].isFolded
                /\ gameState.players[i].chips = initialChips - gameState.players[i].totalBet

\* the hand of the room is started and its pot is not distributed yet
handUnpaid(r) == handNumber > 0 /\ (r.game.round # "SHOWDOWN" \/ r.game.pot > 0)

\* C38: when the player at currentPlayerIndex always eventually submits a legal
\* action through handleAction, every started hand eventually reaches SHOWDOWN
\* and has its pot distributed (pot = 0). A finite run refutes it when it ends
\* in a started hand that can never go on: so, while the pot of a started hand
\* is not distributed, the player at currentPlayerIndex has a legal action or
\* the card-reveal timer is set.
C38_HandCanGoOn ==
    handUnpaid(gameState) =>
        LegalActions(gameState.game) # {} \/ gameState.revealTimers > 0

\* the same as a temporal formula: every started hand leads to a paid SHOWDOWN
HandReachesPaidShowdown ==
    (handNumber > 0 /\ gameState.game.round = "PREFLOP")
        ~> (handNumber > 0 /\ gameState.game.round = "SHOWDOWN" /\ gameState.game.pot = 0)

\* gameEnded or tournamentWinner is set
tournamentDeclared(gs) == gs.gameEnded \/ gs.tournamentWinner # NoPlayer

\* C39: gameEnded and tournamentWinner are set only after showdown and pot
\* distribution: in every state where they are set, both are set, the hand is at
\* SHOWDOWN, the pot is 0 and every player other than the winner has 0 chips.
C39_WinnerOnlyAfterPayout ==
    (handNumber > 0 /\ tournamentDeclared(gameState.game)) =>
        /\ gameState.game.gameEnded
        /\ gameState.game.tournamentWinner \in Seats(gameState.game)
        /\ gameState.game.round = "SHOWDOWN"
        /\ gameState.game.pot = 0
        /\ \A i \in Seats(gameState.game) \ {gameState.game.tournamentWinner} :
              gameState.game.players[i].chips = 0

\* ------------------------------------------ GameStateManager.persistState
\* persistState calls of one room that have not finished
MaxInFlight == 2

\* the columns persistState writes for one player; the cards are cleared for a
\* Viewer and for an empty hand at PREFLOP
playerRow(gs, p) ==
    [ chips |-> p.chips,
      currentBet |-> p.currentBet,
      totalBet |-> p.totalBet,
      isFolded |-> p.isFolded,
      isAllIn |-> p.isAllIn,
      hasActed |-> p.hasActed,
      role |-> p.role,
      cards |-> IF isViewer(p) \/ (p.hand = 0 /\ gs.round = "PREFLOP") THEN 0 ELSE p.hand ]

\* the room row and the player rows persistState builds from a GameState
rowsOf(gs) ==
    [ round |-> gs.round,
      pot |-> gs.pot,
      communityCards |-> gs.communityCards,
      bigBlind |-> gs.bigBlind,
      smallBlind |-> gs.smallBlind,
      players |-> [ i \in Seats(gs) |-> playerRow(gs, gs.players[i]) ] ]

\* the store before anything was written
NoRows == [ players |-> <<>> ]

\* persistState up to its first await: the call holds the live GameState
\* object, nothing of it has been read, and the caller goes on without
\* awaiting the call
persistState(ps) == [ps EXCEPT !.awaitingFindMany = @ + 1]

inFlight(ps) == ps.awaitingFindMany + Len(ps.awaitingTransaction)

InitPersist ==
    /\ gameState = [ room |-> room(NoGame, 0, 0),
                     awaitingFindMany |-> 0,
                     awaitingTransaction |-> <<>>,
                     stored |-> NoRows ]
    /\ handNumber = 0

\* GameStateManager.createGame: the new game's first hand, then persistState
CreatePersistedGame ==
    /\ handNumber = 0
    /\ \E n \in MIN_PLAYERS..MaxSeats :
          gameState' = persistState([gameState EXCEPT
                          !.room = room(startNewHand(initializeGame(n)).gs, 0, 0)])
    /\ handNumber' = 1

\* GameStateManager.handleAction for a legal request of the current player:
\* the room changes, persistState is called and not awaited
HandleActionPersisted ==
    /\ handNumber > 0
    /\ inFlight(gameState) < MaxInFlight
    /\ \E after \in roomsAfterActionInTurn(gameState.room) :
          gameState' = persistState([gameState EXCEPT !.room = after])
    /\ UNCHANGED handNumber

\* the card-reveal timer of handleAction: payout, then persistState
RevealTimerPersisted ==
    /\ gameState.room.revealTimers > 0
    /\ inFlight(gameState) < MaxInFlight
    /\ \E after \in roomsAfterReveal(gameState.room) :
          gameState' = persistState([gameState EXCEPT !.room = after])
    /\ UNCHANGED handNumber

\* prisma.player.findMany of one call resolves: the call builds its updates
\* from the GameState object as it is now and issues the transaction
FindManyResolves ==
    /\ gameState.awaitingFindMany > 0
    /\ gameState' = [gameState EXCEPT
                        !.awaitingFindMany = @ - 1,
                        !.awaitingTransaction = Append(@, rowsOf(gameState.room.game))]
    /\ UNCHANGED handNumber

\* prisma.$transaction of one call commits; the calls are not chained, the
\* store finishes concurrent transactions in either order
TransactionCommits ==
    /\ \E k \in DOMAIN gameState.awaitingTransaction :
          gameState' = [gameState EXCEPT
                           !.stored = gameState.awaitingTransaction[k],
                           !.awaitingTransaction =
                               SubSeq(@, 1, k - 1) \o SubSeq(@, k + 1, Len(@))]
    /\ UNCHANGED handNumber

NextPersist ==
    \/ CreatePersistedGame
    \/ HandleActionPersisted
    \/ RevealTimerPersisted
    \/ FindManyResolves
    \/ TransactionCommits

SpecPersist == InitPersist /\ [][NextPersist]_vars

\* C40: once every persistState call of a room has finished, the stored room
\* and player rows are the rows of the engine's latest GameState.
C40_StoreHasLatestState ==
    (handNumber > 0 /\ inFlight(gameState) = 0)
        => gameState.stored = rowsOf(gameState.room.game)

====
